---- MODULE Spec2Model ----
(***************************************************************************)
(* A model of the YouTube likes summariser: the five-stage batch pipeline  *)
(* of main.py (collection, transcript extraction, summarisation,           *)
(* categorisation, reporting) over its three flat-file stores, and the     *)
(* pure functions of the categorizer and the reporter.                     *)
(*                                                                         *)
(* Text is a sequence of one-character strings, so that lower-casing,      *)
(* slicing and substring search are computed, not assumed.                 *)
(***************************************************************************)
EXTENDS Integers, Sequences, FiniteSets, TLC

VARIABLES
    config,            \* self.config: whisper.enabled, whisper.fallback_only, categories
    catalog,           \* the platform: what it holds for each video identifier
    likes_raw,         \* data/likes_raw.json: the persisted collection snapshot
    transcript_files,  \* data/transcripts/<id>_<method>.json
    summary_files,     \* data/summaries/<id>_summary.json
    markdown_file,     \* outputs/<date>_summary.md
    excel_file,        \* outputs/<date>_youtube_summaries.xlsx
    html_file,         \* outputs/<date>_summary.html
    schedule_file,     \* outputs/review_schedule.md
    pc,                \* position of run_full_pipeline
    runs,              \* number of pipeline runs started
    videos,            \* run_full_pipeline's local: videos
    transcripts,       \* run_full_pipeline's local: transcripts
    summaries,         \* run_full_pipeline's local: summaries
    categorized,       \* run_full_pipeline's local: categorized
    caption_requests,  \* identifiers the captions API was asked for, this run
    whisper_attempts,  \* identifiers _extract_with_whisper was entered for, this run
    generation_requests, \* identifiers messages.create was called for, this run
    cat_call,          \* the last direct call of categorize_video: arguments and label
    schedule_call,     \* the last direct call of generate_review_schedule
    call               \* the last direct call of another method: arguments, environment, results

vars == << config, catalog, likes_raw, transcript_files, summary_files,
           markdown_file, excel_file, html_file, schedule_file, pc, runs, videos, transcripts,
           summaries, categorized, caption_requests, whisper_attempts,
           generation_requests, cat_call, schedule_call, call >>

-----------------------------------------------------------------------------
(* Text *)

UpperAlpha == << "A","B","C","D","E","F","G","H","I","J","K","L","M",
                 "N","O","P","Q","R","S","T","U","V","W","X","Y","Z" >>
LowerAlpha == << "a","b","c","d","e","f","g","h","i","j","k","l","m",
                 "n","o","p","q","r","s","t","u","v","w","x","y","z" >>

\* str.lower() on the letters A-Z, as a table
LowerTable ==
    [c \in { UpperAlpha[i] : i \in 1..Len(UpperAlpha) } |->
        LowerAlpha[CHOOSE i \in 1..Len(UpperAlpha) : UpperAlpha[i] = c]]

\* str.lower() on one character
LowerChar(c) == IF c \in DOMAIN LowerTable THEN LowerTable[c] ELSE c

\* str.lower()
Lower(s) == [i \in 1..Len(s) |-> LowerChar(s[i])]

\* the Python expression `k in s` on strings
Contains(k, s) ==
    LET n == Len(k)
    IN  \E i \in 0..(Len(s) - n) : \A j \in 1..n : s[i + j] = k[j]

\* the Python slice s[:n]
Take(s, n) == SubSeq(s, 1, IF Len(s) < n THEN Len(s) ELSE n)

Space == << " " >>

\* n copies of the character c
Repeat(c, n) == [i \in 1..n |-> c]

-----------------------------------------------------------------------------
(* Records.  A Python dict that lacks a key is a record whose field is the *)
(* string "None": dict.get(key) then compares unequal to every real value. *)

Absent == "None"

\* Python's None where a transcript or summary dict is expected
NoRecord == [video_id |-> Absent, status |-> Absent]

IsNone(r) == r.status = Absent

\* a collected VideoRecord (channel, counts and timestamps play no part)
VideoRecord(id, title, description) ==
    [video_id |-> id, title |-> title, description |-> description,
     url |-> << "watch?v=", id >>]

-----------------------------------------------------------------------------
(* categorizer.py *)

TranscriptPrefixLen == 500

\* the label returned when nothing matches: the two Hangul syllables U+AE30
\* U+D0C0 ("gita", "others"), written here in ASCII
DefaultCategory == "gita"

\* search_text with the slice one character short
search_text_short(video, transcript) ==
    LET base == Lower(video.title \o Space \o video.description)
    IN  IF ~IsNone(transcript) /\ transcript.status = "success"
        THEN base \o Space \o Lower(Take(transcript.text, TranscriptPrefixLen - 1))
        ELSE base

\* the lower-cased text the keywords are looked up in
search_text(video, transcript) ==
    LET base == Lower(video.title \o Space \o video.description)
    IN  IF ~IsNone(transcript) /\ transcript.status = "success"
        THEN base \o Space \o Lower(Take(transcript.text, TranscriptPrefixLen))
        ELSE base

\* sum(1 for keyword in keywords if keyword.lower() in search_text)
keyword_score(keywords, text) ==
    Cardinality({ j \in 1..Len(keywords) : Contains(Lower(keywords[j]), text) })

\* category_scores: the configured categories with a positive score, in the
\* order of the configuration mapping, each with its score
category_scores(categories, text) ==
    LET scored == [i \in 1..Len(categories) |->
                     [category |-> categories[i].name,
                      score |-> keyword_score(categories[i].keywords, text)]]
    IN  SelectSeq(scored, LAMBDA e : e.score > 0)

\* max(category_scores, key=category_scores.get), when a later entry replaces
\* the running maximum on an equal score
RECURSIVE max_by_score_last(_, _)
max_by_score_last(scores, best) ==
    IF scores = << >> THEN best.category
    ELSE max_by_score_last(Tail(scores),
                           IF Head(scores).score >= best.score
                           THEN Head(scores) ELSE best)

\* max(category_scores, key=category_scores.get): the entries are visited in
\* dict order and the running maximum is replaced only by a greater score
RECURSIVE max_by_score(_, _)
max_by_score(scores, best) ==
    IF scores = << >> THEN best.category
    ELSE max_by_score(Tail(scores),
                      IF Head(scores).score > best.score
                      THEN Head(scores) ELSE best)

\* VideoCategorizer.categorize_video
categorize_video(categories, video, transcript) ==
    LET scores == category_scores(categories, search_text(video, transcript))
    IN  IF scores # << >>
        THEN max_by_score(Tail(scores), Head(scores))
        ELSE DefaultCategory


-----------------------------------------------------------------------------
(* transcript_extractor.py *)

Range(f) == { f[i] : i \in DOMAIN f }

\* ' '.join(parts)
RECURSIVE JoinSpace(_)
JoinSpace(parts) ==
    IF parts = << >> THEN << >>
    ELSE IF Len(parts) = 1 THEN Head(parts)
    ELSE Head(parts) \o Space \o JoinSpace(Tail(parts))

\* str.strip(), for the blanks speech recognition puts around its text
RECURSIVE Strip(_)
Strip(s) ==
    IF s = << >> THEN s
    ELSE IF Head(s) = " " THEN Strip(Tail(s))
    ELSE IF s[Len(s)] = " " THEN Strip(SubSeq(s, 1, Len(s) - 1))
    ELSE s

\* the default of extract_transcript's parameter languages
LanguagePreference == << "ko", "en" >>

\* a transcript dict; the keys a failure dict lacks are Absent
TranscriptRecord(id, status, method, language, text, entries) ==
    [video_id |-> id, status |-> status, method |-> method,
     language |-> language, text |-> text, entries |-> entries,
     video_title |-> Absent, video_url |-> Absent]

\* TranscriptExtractor._extract_youtube_transcript.  api_ok: whether the
\* captions API answers this call's requests; a request that raises is
\* passed over, in the language loop and in the listing alike.
extract_youtube_transcript(cat, video_id, languages, api_ok) ==
    LET tracks == cat[video_id].captions
        hits == SelectSeq(languages,
                          LAMBDA l : api_ok /\ l \in { t.language : t \in Range(tracks) })
        language_used ==
            IF hits # << >> THEN Head(hits)
            ELSE IF api_ok /\ tracks # << >> THEN Head(tracks).language
            ELSE Absent
        track == CHOOSE t \in Range(tracks) : t.language = language_used
    IN  IF language_used = Absent
        THEN TranscriptRecord(video_id, "no_transcript", Absent, Absent, Absent, Absent)
        ELSE IF track.segments = Absent
        THEN \* entries without a 'text' key: the join of line 93 raises
             TranscriptRecord(video_id, "error", Absent, Absent, Absent, Absent)
        ELSE TranscriptRecord(video_id, "success", "youtube_api", language_used,
                              JoinSpace(track.segments), track.segments)

\* _extract_with_whisper returning a status of its own when it fails
extract_with_whisper_failed(cat, video_id, url, outcome) ==
    LET speech == cat[video_id].speech
    IN  IF outcome = "ok"
        THEN TranscriptRecord(video_id, "success", "whisper", speech.language,
                              Strip(JoinSpace(speech.segments)),
                              [i \in 1..Len(speech.segments) |-> Strip(speech.segments[i])])
        ELSE TranscriptRecord(video_id, "failed", Absent, Absent, Absent, Absent)

\* TranscriptExtractor._extract_with_whisper.  outcome: what the download
\* and the recognition do: "download_failed", "transcribe_error" or "ok".
extract_with_whisper(cat, video_id, url, outcome) ==
    LET speech == cat[video_id].speech
    IN  IF outcome = "ok"
        THEN TranscriptRecord(video_id, "success", "whisper", speech.language,
                              Strip(JoinSpace(speech.segments)),
                              [i \in 1..Len(speech.segments) |-> Strip(speech.segments[i])])
        ELSE TranscriptRecord(video_id, "error", Absent, Absent, Absent, Absent)

\* _extract_with_whisper and _download_audio, the audio file of the video:
\* whether a path was obtained (found on disk, or downloaded), whether
\* os.remove was reached, and whether the file is on disk at the return.
\* on_disk: data/audio/<id>.mp3 exists at entry; remove_ok: os.remove works.
whisper_audio(on_disk, outcome, remove_ok) ==
    IF ~on_disk /\ outcome = "download_failed"
    THEN [obtained |-> FALSE, remove_attempted |-> FALSE, on_disk |-> FALSE]
    ELSE IF outcome = "transcribe_error"
    THEN [obtained |-> TRUE, remove_attempted |-> FALSE, on_disk |-> TRUE]
    ELSE [obtained |-> TRUE, remove_attempted |-> TRUE, on_disk |-> ~remove_ok]

\* whisper_step without the test of self.use_whisper
whisper_step_unconditional(use_whisper, url, transcript) ==
    transcript.status # "success" /\ url # << >>

\* whether extract_transcript goes on to speech recognition after the
\* captions attempt returned `transcript`
whisper_step(use_whisper, url, transcript) ==
    transcript.status # "success" /\ use_whisper /\ url # << >>

\* TranscriptExtractor.extract_transcript
extract_transcript(cat, use_whisper, video_id, url, env) ==
    LET transcript == extract_youtube_transcript(cat, video_id, LanguagePreference,
                                                 env.api_ok)
    IN  IF whisper_step(use_whisper, url, transcript)
        THEN extract_with_whisper(cat, video_id, url, env.whisper)
        ELSE transcript

\* load_transcript with the two methods tried in the other order
load_transcript_whisper_first(files, video_id) ==
    IF ~IsNone(files[video_id].whisper) THEN files[video_id].whisper
    ELSE IF ~IsNone(files[video_id].youtube_api) THEN files[video_id].youtube_api
    ELSE NoRecord

\* TranscriptExtractor.load_transcript: the platform-captions file first
load_transcript(files, video_id) ==
    IF ~IsNone(files[video_id].youtube_api) THEN files[video_id].youtube_api
    ELSE IF ~IsNone(files[video_id].whisper) THEN files[video_id].whisper
    ELSE NoRecord

\* save_transcripts writing the records of the captions API only
save_transcripts_captions_only(files, ts) ==
    [id \in DOMAIN files |->
        [m \in { "youtube_api", "whisper" } |->
            LET at == { i \in 1..Len(ts) :
                          /\ ts[i].status = "success"
                          /\ ts[i].video_id = id
                          /\ ts[i].method = m
                          /\ m = "youtube_api" }
            IN  IF at = {} THEN files[id][m]
                ELSE ts[CHOOSE i \in at : \A j \in at : j <= i]]]

\* save_transcripts emptying the store before it writes this run's records
save_transcripts_afresh(files, ts) ==
    [id \in DOMAIN files |->
        [m \in { "youtube_api", "whisper" } |->
            LET at == { i \in 1..Len(ts) :
                          /\ ts[i].status = "success"
                          /\ ts[i].video_id = id
                          /\ ts[i].method = m }
            IN  IF at = {} THEN NoRecord
                ELSE ts[CHOOSE i \in at : \A j \in at : j <= i]]]

\* TranscriptExtractor.save_transcripts: one file per identifier and method,
\* written for the success records only, a later record over an earlier one
RECURSIVE save_transcripts(_, _)
save_transcripts(files, ts) ==
    IF ts = << >> THEN files
    ELSE LET t == Head(ts)
             written ==
                 IF t.status = "success"
                 THEN [files EXCEPT ![t.video_id][t.method] = t]
                 ELSE files
         IN  save_transcripts(written, Tail(ts))

EnglishLanguages == { "en", "en-US", "en-GB" }

\* english_keywords; the second one is the two Hangul syllables U+C601 U+C5B4
EnglishKeywords ==
    << << "e","n","g","l","i","s","h" >>,
       << "U+C601", "U+C5B4" >>,
       << "t","o","e","i","c" >>,
       << "s","p","e","a","k","i","n","g" >>,
       << "g","r","a","m","m","a","r" >>,
       << "v","o","c","a","b","u","l","a","r","y" >> >>

\* is_english_content looking the keywords up in the title as it is written
is_english_content_case_sensitive(transcript) ==
    IF IsNone(transcript) \/ transcript.status # "success" THEN FALSE
    ELSE IF transcript.language \in EnglishLanguages THEN TRUE
    ELSE LET title == IF transcript.video_title = Absent THEN << >>
                      ELSE transcript.video_title
         IN  \E i \in 1..Len(EnglishKeywords) : Contains(EnglishKeywords[i], title)

\* TranscriptExtractor.is_english_content
is_english_content(transcript) ==
    IF IsNone(transcript) \/ transcript.status # "success" THEN FALSE
    ELSE IF transcript.language \in EnglishLanguages THEN TRUE
    ELSE LET title == Lower(IF transcript.video_title = Absent THEN << >>
                            ELSE transcript.video_title)
         IN  \E i \in 1..Len(EnglishKeywords) : Contains(EnglishKeywords[i], title)

-----------------------------------------------------------------------------
(* summarizer.py *)

\* a summary dict; an error dict has no type and no summary
SummaryRecord(transcript, type, summary, status) ==
    [video_id |-> transcript.video_id,
     video_title |-> IF status = "success" THEN transcript.video_title ELSE Absent,
     video_url |-> IF status = "success" THEN transcript.video_url ELSE Absent,
     type |-> type, summary |-> summary, status |-> status, error |-> Absent]

\* VideoSummarizer.summarize_general.  reply: the text the generation request
\* returns, or "fail" when the request raises an exception whose message is
\* "fail"; the error record carries str(e).
summarize_general_no_message(transcript, reply) ==
    IF transcript.status # "success"
    THEN SummaryRecord(transcript, Absent, Absent, "skipped")
    ELSE IF reply # "fail"
    THEN SummaryRecord(transcript, "general", reply, "success")
    ELSE SummaryRecord(transcript, Absent, Absent, "error")

summarize_general(transcript, reply) ==
    IF transcript.status # "success"
    THEN SummaryRecord(transcript, Absent, Absent, "skipped")
    ELSE IF reply # "fail"
    THEN SummaryRecord(transcript, "general", reply, "success")
    ELSE [SummaryRecord(transcript, Absent, Absent, "error") EXCEPT !.error = reply]

\* VideoSummarizer.summarize_english_learning
summarize_english_learning(transcript, reply) ==
    IF transcript.status # "success"
    THEN SummaryRecord(transcript, Absent, Absent, "skipped")
    ELSE IF reply # "fail"
    THEN SummaryRecord(transcript, "english_learning", reply, "success")
    ELSE [SummaryRecord(transcript, Absent, Absent, "error") EXCEPT !.error = reply]

\* the generation requests one call of summarize_general or of
\* summarize_english_learning issues: messages.create stands once in the
\* function, after the status test and outside any loop
summarizer_requests(transcript) ==
    IF transcript.status # "success" THEN 0 ELSE 1

\* VideoSummarizer.load_summary
load_summary(files, video_id) == files[video_id]

\* save_summaries without the status test of line 158: every record is written
save_summaries_all(files, ss) ==
    [id \in DOMAIN files |->
        LET at == { i \in 1..Len(ss) : ss[i].video_id = id }
        IN  IF at = {} THEN files[id]
            ELSE ss[CHOOSE i \in at : \A j \in at : j <= i]]

\* VideoSummarizer.save_summaries: one file per identifier, written for the
\* success records only
RECURSIVE save_summaries(_, _)
save_summaries(files, ss) ==
    IF ss = << >> THEN files
    ELSE LET s == Head(ss)
             written == IF s.status = "success"
                        THEN [files EXCEPT ![s.video_id] = s]
                        ELSE files
         IN  save_summaries(written, Tail(ss))

-----------------------------------------------------------------------------
(* categorizer.py: categorize_batch *)

\* transcript_map.get(video_id): of several transcripts with one identifier
\* the dict comprehension keeps the last
transcript_map_get(ts, video_id) ==
    LET at == { i \in 1..Len(ts) : ts[i].video_id = video_id }
    IN  IF at = {} THEN NoRecord
        ELSE ts[CHOOSE i \in at : \A j \in at : j <= i]

\* video_with_category
tag_video(categories, ts, video) ==
    [video_id |-> video.video_id, title |-> video.title,
     description |-> video.description, url |-> video.url,
     category |-> categorize_video(categories, video,
                                   transcript_map_get(ts, video.video_id))]

\* categorize_batch calling categorize_video without the transcript
categorize_batch_without_transcript(categories, vs, ts) ==
    LET tagged == [i \in 1..Len(vs) |-> tag_video(categories, << >>, vs[i])]
    IN  [c \in { tagged[i].category : i \in 1..Len(vs) } |->
            SelectSeq(tagged, LAMBDA v : v.category = c)]

\* VideoCategorizer.categorize_batch: label -> the videos tagged with it
categorize_batch(categories, vs, ts) ==
    LET tagged == [i \in 1..Len(vs) |-> tag_video(categories, ts, vs[i])]
    IN  [c \in { tagged[i].category : i \in 1..Len(vs) } |->
            SelectSeq(tagged, LAMBDA v : v.category = c)]

-----------------------------------------------------------------------------
(* reporter.py *)

\* the category labels of the model in code-point order, the order of
\* Python's sorted() on them (the Hangul default label after the ASCII ones)
CodePointOrder == << "life", "tech", "x", "y", DefaultCategory >>

\* sorted(categorized_videos.keys())
sorted_keys(grouping) == SelectSeq(CodePointOrder, LAMBDA c : c \in DOMAIN grouping)

NoFile == [written |-> FALSE]

\* the notice written whatever the summaries are
NoticeWrittenAlways(ss) == TRUE

\* the text "no video had extractable captions", written in place of the
\* category sections
NoticeWritten(ss) == SelectSeq(ss, LAMBDA s : s.status = "success") = << >>

\* ReportGenerator.generate_markdown_report: the document written
generate_markdown_report(ss, grouping) ==
    LET keys == sorted_keys(grouping)
        category_summaries(c) ==
            SelectSeq(ss, LAMBDA s :
                /\ s.status = "success"
                /\ \E i \in 1..Len(grouping[c]) : grouping[c][i].video_id = s.video_id)
        english_summaries ==
            SelectSeq(ss, LAMBDA s : s.type = "english_learning" /\ s.status = "success")
    IN  [written |-> TRUE,
         total |-> Len(ss),
         distribution |-> [i \in 1..Len(keys) |->
                              [category |-> keys[i], count |-> Len(grouping[keys[i]])]],
         notice |-> NoticeWritten(ss),
         sections |-> IF NoticeWritten(ss) THEN << >>
                      ELSE [i \in 1..Len(keys) |->
                              [category |-> keys[i],
                               entries |-> category_summaries(keys[i])]],
         english |-> IF NoticeWritten(ss) THEN << >> ELSE english_summaries]

\* the position-ordered distinct values of a sequence: df[column].unique()
Unique(values) ==
    LET first == SelectSeq([i \in 1..Len(values) |-> i], LAMBDA i :
                     \A j \in 1..(i - 1) : values[j] # values[i])
    IN  [k \in 1..Len(first) |-> values[first[k]]]

\* video_categories.get(video_id, default) on a mapping that was never filled
video_categories_unfilled(grouping, video_id) == DefaultCategory

\* video_categories.get(video_id, default): the label whose list holds the
\* identifier (categorize_batch puts an identifier under one label)
video_categories(grouping, video_id) ==
    LET holding == { c \in DOMAIN grouping :
                       \E i \in 1..Len(grouping[c]) : grouping[c][i].video_id = video_id }
    IN  IF holding = {} THEN DefaultCategory ELSE CHOOSE c \in holding : TRUE

\* the names of the all-records sheet and of the language-learning sheet
AllSheet == "jeonche"
EnglishSheet == "yeongeohagseub_bogseubyong"

\* generate_excel_report without the filter of line 85
excel_rows_of_all(ss) == ss

\* generate_excel_report, line 85: the summaries that become rows
excel_rows_of(ss) == SelectSeq(ss, LAMBDA s : s.status = "success")

\* ReportGenerator.generate_excel_report: the workbook written, sheet by
\* sheet in writing order; no workbook when no summary has status success
generate_excel_report(ss, grouping) ==
    LET success_summaries == excel_rows_of(ss)
        data == [i \in 1..Len(success_summaries) |->
                    [category |-> video_categories(grouping, success_summaries[i].video_id),
                     title |-> success_summaries[i].video_title,
                     url |-> success_summaries[i].video_url,
                     type |-> IF success_summaries[i].type = "english_learning"
                              THEN "english" ELSE "general",
                     summary |-> success_summaries[i].summary]]
        unique == Unique([i \in 1..Len(data) |-> data[i].category])
        english_df == SelectSeq(data, LAMBDA row : row.type = "english")
    IN  IF success_summaries = << >>
        THEN NoFile
        ELSE [written |-> TRUE,
              sheets |-> << [name |-> AllSheet, rows |-> data] >>
                         \o [i \in 1..Len(unique) |->
                               [name |-> unique[i],
                                rows |-> SelectSeq(data, LAMBDA row : row.category = unique[i])]]
                         \o (IF english_df = << >> THEN << >>
                             ELSE << [name |-> EnglishSheet, rows |-> english_df] >>)]

\* summary.get(key, default) for a key the summary dicts may lack
GetOr(record, key, default) ==
    IF key \in DOMAIN record /\ record[key] # Absent THEN record[key] ELSE default

\* ReportGenerator.generate_html_report with _generate_html_template_with_pwa:
\* the statistics and, per category in sorted order, the video cards; a
\* category without cards gets no section
generate_html_report(ss, grouping) ==
    LET success_summaries == SelectSeq(ss, LAMBDA s : s.status = "success")
        keys == sorted_keys(grouping)
        category_summaries(c) ==
            SelectSeq(success_summaries, LAMBDA s :
                \E i \in 1..Len(grouping[c]) : grouping[c][i].video_id = s.video_id)
        card(s) == [type |-> GetOr(s, "type", "general"),
                    method |-> GetOr(s, "method", "youtube_api"),
                    whisper_badge |-> GetOr(s, "method", "youtube_api") = "whisper",
                    title |-> s.video_title, url |-> s.video_url,
                    summary |-> s.summary]
        section(c) == [category |-> c,
                       cards |-> [k \in 1..Len(category_summaries(c)) |->
                                     card(category_summaries(c)[k])]]
        shown == SelectSeq(keys, LAMBDA c : category_summaries(c) # << >>)
    IN  [written |-> TRUE,
         total |-> Len(success_summaries),
         english |-> Len(SelectSeq(success_summaries,
                                   LAMBDA s : GetOr(s, "type", Absent) = "english_learning")),
         whisper |-> Len(SelectSeq(success_summaries,
                                   LAMBDA s : GetOr(s, "method", Absent) = "whisper")),
         categories |-> Cardinality(DOMAIN grouping),
         sections |-> [i \in 1..Len(shown) |-> section(shown[i])]]

\* YouTubeSummaryApp._print_summary: the figures of the run summary; the
\* Whisper line is printed when its count is above zero
print_summary(ss, grouping) ==
    LET keys == sorted_keys(grouping)
        whisper_count == Len(SelectSeq(ss, LAMBDA s :
                                 GetOr(s, "method", Absent) = "whisper"))
    IN  [total |-> Len(SelectSeq(ss, LAMBDA s : s.status = "success")),
         english |-> Len(SelectSeq(ss, LAMBDA s :
                             GetOr(s, "type", Absent) = "english_learning")),
         whisper |-> whisper_count,
         whisper_shown |-> whisper_count > 0,
         distribution |-> [i \in 1..Len(keys) |->
                              [category |-> keys[i], count |-> Len(grouping[keys[i]])]]]

\* the Gregorian calendar, for datetime + timedelta(days=n) and strftime
IsLeap(y) == (y % 4 = 0 /\ y % 100 # 0) \/ y % 400 = 0

DaysInMonth(y, m) ==
    IF m = 2 THEN (IF IsLeap(y) THEN 29 ELSE 28)
    ELSE IF m \in {4, 6, 9, 11} THEN 30 ELSE 31

NextDay(t) ==
    IF t.d < DaysInMonth(t.y, t.m) THEN [t EXCEPT !.d = t.d + 1]
    ELSE IF t.m < 12 THEN [t EXCEPT !.m = t.m + 1, !.d = 1]
    ELSE [t EXCEPT !.y = t.y + 1, !.m = 1, !.d = 1]

\* today + timedelta(days=n): the time of day is kept
RECURSIVE AddDays(_, _)
AddDays(t, n) == IF n = 0 THEN t ELSE AddDays(NextDay(t), n - 1)

\* strftime('%Y-%m-%d'): the time of day is dropped
DateString(t) == << t.y, t.m, t.d >>

\* the default of generate_review_schedule's parameter days, with one offset
\* mistyped
ReviewDaysMistyped == << 1, 3, 7, 14, 28 >>

\* the default of generate_review_schedule's parameter days
ReviewDays == << 1, 3, 7, 14, 30 >>

\* schedule[review_date] = [...] for each day in days, in turn
RECURSIVE fill_schedule(_, _, _, _)
fill_schedule(schedule, today, english, days) ==
    IF days = << >> THEN schedule
    ELSE LET day == Head(days)
             review_date == DateString(AddDays(today, day))
             bucket == [i \in 1..Len(english) |->
                          [title |-> english[i].video_title,
                           url |-> english[i].video_url,
                           day |-> << "D+", day >>]]
         IN  fill_schedule([k \in DOMAIN schedule \cup {review_date} |->
                               IF k = review_date THEN bucket ELSE schedule[k]],
                           today, english, Tail(days))

\* ReportGenerator.generate_review_schedule: the schedule returned, and what
\* becomes of outputs/review_schedule.md
generate_review_schedule(ss, today, file) ==
    LET english == SelectSeq(ss, LAMBDA s :
                       s.type = "english_learning" /\ s.status = "success")
        schedule == fill_schedule(<< >>, today, english, ReviewDays)
    IN  IF english = << >>
        THEN [schedule |-> << >>, file |-> file]
        ELSE [schedule |-> schedule,
              file |-> [written |-> TRUE, today |-> today, buckets |-> schedule]]

-----------------------------------------------------------------------------
(* main.py: the stages of run_full_pipeline *)

\* token.pickle: absent, unreadable, or holding pickled credentials
NoToken == [state |-> "absent", valid |-> FALSE, expired |-> FALSE,
            refresh_token |-> FALSE, origin |-> Absent]

CorruptToken == [NoToken EXCEPT !.state = "corrupt"]

\* credentials as they are after creds.refresh(Request())
refreshed(creds) == [creds EXCEPT !.valid = TRUE, !.expired = FALSE, !.origin = "refresh"]

\* credentials as flow.run_local_server returns them
LoginCredentials == [state |-> "creds", valid |-> TRUE, expired |-> FALSE,
                     refresh_token |-> TRUE, origin |-> "login"]

\* lines 38-40: the credentials are written to token.pickle, or open() raises
save_token(token, creds, refresh_attempted, prompted, write_ok) ==
    IF write_ok
    THEN [refresh_attempted |-> refresh_attempted, prompted |-> prompted,
          raised |-> FALSE, credentials |-> creds, token |-> creds]
    ELSE [refresh_attempted |-> refresh_attempted, prompted |-> prompted,
          raised |-> TRUE, credentials |-> NoToken, token |-> token]

\* YouTubeCollector.authenticate.  token: token.pickle at entry; refresh_ok,
\* login_ok, write_ok: whether the refresh request, the interactive flow and
\* the write of token.pickle succeed.  An exception of theirs is not caught.
authenticate(token, refresh_ok, login_ok, write_ok) ==
    IF token.state = "corrupt"
    THEN [refresh_attempted |-> FALSE, prompted |-> FALSE, raised |-> TRUE,
          credentials |-> NoToken, token |-> token]
    ELSE IF token.state = "creds" /\ token.valid
    THEN [refresh_attempted |-> FALSE, prompted |-> FALSE, raised |-> FALSE,
          credentials |-> token, token |-> token]
    ELSE IF token.state = "creds" /\ token.expired /\ token.refresh_token
    THEN IF refresh_ok
         THEN save_token(token, refreshed(token), TRUE, FALSE, write_ok)
         ELSE [refresh_attempted |-> TRUE, prompted |-> FALSE, raised |-> TRUE,
               credentials |-> NoToken, token |-> token]
    ELSE IF login_ok
         THEN save_token(token, LoginCredentials, FALSE, TRUE, write_ok)
         ELSE [refresh_attempted |-> FALSE, prompted |-> TRUE, raised |-> TRUE,
               credentials |-> NoToken, token |-> token]

\* YouTubeCollector.get_liked_videos, lines 58-76: while a request is left and
\* fewer than max_results items are gathered, the page is fetched and every
\* item of it appended.  pages: the pages the listing still holds.
RECURSIVE fetch_pages(_, _, _, _)
fetch_pages(pages, max_results, liked_videos, requests) ==
    IF pages = << >> \/ Len(liked_videos) >= max_results
    THEN [liked_videos |-> liked_videos, requests |-> requests]
    ELSE fetch_pages(Tail(pages), max_results, liked_videos \o Head(pages), requests + 1)

\* YouTubeCollector.get_liked_videos: the items returned and the number of
\* page requests executed
get_liked_videos(pages, max_results) == fetch_pages(pages, max_results, << >>, 0)

\* YouTubeCollector.load_from_json: no file reads as the empty list
load_from_json(file) == IF file.written THEN file.videos ELSE << >>

\* _collect_videos with the test of CI nested under `if existing:`
collect_videos_ci_under_existing(file, force_refresh, ci, fetched) ==
    IF ~force_refresh /\ ci /\ load_from_json(file) # << >>
    THEN [videos |-> load_from_json(file), likes_raw |-> file,
          authenticated |-> FALSE, listed |-> FALSE, prompted |-> FALSE]
    ELSE [videos |-> fetched, likes_raw |-> [written |-> TRUE, videos |-> fetched],
          authenticated |-> TRUE, listed |-> TRUE, prompted |-> FALSE]

\* _collect_videos.  fetched: the list get_liked_videos returns when it is
\* called.  ci: whether os.getenv('CI') is a non-empty string.
\* The snapshot is returned at line 97, under the test of CI alone;
\* the prompt of lines 98-100 stands after that return and is never reached.
collect_videos(file, force_refresh, ci, fetched) ==
    IF ~force_refresh /\ ci
    THEN [videos |-> load_from_json(file), likes_raw |-> file,
          authenticated |-> FALSE, listed |-> FALSE, prompted |-> FALSE]
    ELSE [videos |-> fetched, likes_raw |-> [written |-> TRUE, videos |-> fetched],
          authenticated |-> TRUE, listed |-> TRUE, prompted |-> FALSE]

\* run_full_pipeline without the early return of lines 62-64
after_collection_always(vs) == "collected"

\* run_full_pipeline, lines 62-64: where the run stands after collection;
\* with no videos it returns
after_collection(vs) == IF vs = << >> THEN "done" ELSE "collected"

\* _extract_transcripts, lines 126-138: whether the loop extracts afresh
\* for this video (no persisted transcript was loaded)
extracts_afresh(files, video) == IsNone(load_transcript(files, video.video_id))

\* _extract_transcripts, lines 126-138: the record appended for one video
extract_item(cat, use_whisper, files, video, env) ==
    IF ~extracts_afresh(files, video)
    THEN load_transcript(files, video.video_id)
    ELSE [extract_transcript(cat, use_whisper, video.video_id, video.url, env)
             EXCEPT !.video_title = video.title, !.video_url = video.url]

\* _extract_transcripts: the list returned
extract_transcripts(cat, use_whisper, files, vs, envs) ==
    [i \in 1..Len(vs) |-> extract_item(cat, use_whisper, files, vs[i], envs[i])]

\* the identifiers, in loop order, the captions API was asked for
captions_asked(files, vs) ==
    LET fresh == SelectSeq(vs, LAMBDA v : extracts_afresh(files, v))
    IN  [i \in 1..Len(fresh) |-> fresh[i].video_id]

\* the identifiers, in loop order, speech recognition was attempted for
whisper_tried(cat, use_whisper, files, vs, envs) ==
    LET at == SelectSeq([i \in 1..Len(vs) |-> i], LAMBDA i :
                  /\ extracts_afresh(files, vs[i])
                  /\ whisper_step(use_whisper, vs[i].url,
                         extract_youtube_transcript(cat, vs[i].video_id,
                             LanguagePreference, envs[i].api_ok)))
    IN  [k \in 1..Len(at) |-> vs[at[k]].video_id]

\* _generate_summaries without the filter of line 157
valid_transcripts_all(ts) == ts

\* _generate_summaries, line 157
valid_transcripts(ts) == SelectSeq(ts, LAMBDA t : t.status = "success")

\* _generate_summaries without the test of line 172
summarizes_always(files, transcript) == TRUE

\* _generate_summaries, lines 170-172: whether a generation request is made
\* for this transcript (no persisted summary was loaded)
summarizes_afresh(files, transcript) == IsNone(load_summary(files, transcript.video_id))

\* _generate_summaries, lines 172-176: the evaluations of is_english_content
\* for one transcript; the call stands once, in the branch without a
\* persisted summary
english_checks(files, transcript) ==
    IF summarizes_afresh(files, transcript) THEN 1 ELSE 0

\* _generate_summaries, lines 170-181: the record appended for one transcript
summarize_item(files, transcript, reply) ==
    IF ~summarizes_afresh(files, transcript)
    THEN load_summary(files, transcript.video_id)
    ELSE IF is_english_content(transcript)
    THEN summarize_english_learning(transcript, reply)
    ELSE summarize_general(transcript, reply)

\* _generate_summaries leaving its loop at the first error record
generate_summaries_stop_at_error(files, ts, replies) ==
    LET valid == valid_transcripts(ts)
        all == [i \in 1..Len(valid) |-> summarize_item(files, valid[i], replies[i])]
        errs == { i \in 1..Len(all) : all[i].status = "error" }
        stop == IF errs = {} THEN Len(all)
                ELSE CHOOSE i \in errs : \A j \in errs : i <= j
    IN  SubSeq(all, 1, stop)

\* _generate_summaries: the list returned
generate_summaries(files, ts, replies) ==
    LET valid == valid_transcripts(ts)
    IN  [i \in 1..Len(valid) |-> summarize_item(files, valid[i], replies[i])]

\* the identifiers, in loop order, a generation request was issued for
generation_asked(files, ts) ==
    LET fresh == SelectSeq(valid_transcripts(ts), LAMBDA t : summarizes_afresh(files, t))
    IN  [i \in 1..Len(fresh) |-> fresh[i].video_id]

\* _generate_reports, lines 212-214: the schedule is asked for only when
\* some summary has the type english_learning
review_schedule_step(ss, today, file) ==
    IF SelectSeq(ss, LAMBDA s : s.type = "english_learning") # << >>
    THEN generate_review_schedule(ss, today, file).file
    ELSE file

-----------------------------------------------------------------------------
(* The bounded world the pipeline runs in *)

MaxRuns == 2        \* pipeline runs in one behaviour
MaxListing == 2     \* videos the liked-items listing returns

VideoIds == { "V1", "V2" }

TitleAlgorithmBasics ==
    << "A","l","g","o","r","i","t","h","m"," ","b","a","s","i","c","s" >>
TitleMyDailyDiary ==
    << "M","y"," ","d","a","i","l","y"," ","d","i","a","r","y" >>

KeywordAlgorithm == << "a","l","g","o","r","i","t","h","m" >>
KeywordDiary == << "d","i","a","r","y" >>

\* what the platform holds: V1 has no captions in any language and English
\* speech, V2 has captions in one language (a parameter, as is their text)
Catalog(v2_language, v2_segments) ==
    [id \in VideoIds |->
        CASE id = "V1" ->
               [title |-> TitleAlgorithmBasics, description |-> << >>,
                captions |-> << >>,
                speech |-> [language |-> "en",
                            segments |-> << << " ","h","i" >>, << " ","a","l","l"," " >> >>]]
          [] id = "V2" ->
               [title |-> TitleMyDailyDiary, description |-> << >>,
                captions |-> << [language |-> v2_language, segments |-> v2_segments] >>,
                speech |-> [language |-> v2_language, segments |-> << << " ","o","k" >> >>]]]

Catalogs == { Catalog("ko", << << "o","k" >>, << "d","a","y" >> >>),
              Catalog("ja", << << "a","n" >>, KeywordAlgorithm >>) }

\* categories: {tech: [algorithm], life: [diary]}
ScenarioCategories ==
    << [name |-> "tech", keywords |-> << KeywordAlgorithm >>],
       [name |-> "life", keywords |-> << KeywordDiary >>] >>

Configs ==
    [use_whisper : BOOLEAN, fallback_only : BOOLEAN, markdown_format : BOOLEAN,
     excel_export : { TRUE }, categories : { ScenarioCategories }]

Listings == UNION { [1..n -> VideoIds] : n \in 0..MaxListing }

ExtractEnvs == [api_ok : BOOLEAN, whisper : { "ok", "download_failed", "transcribe_error" }]

Replies == { "fail", "summary A", "summary B" }

Todays == { [y |-> 2024, m |-> 2, d |-> 27, hour |-> 23],
            [y |-> 2025, m |-> 12, d |-> 30, hour |-> 0] }

NoCall == [called |-> FALSE]

\* the stores and the run's locals before the first run
InitPipeline ==
    /\ likes_raw = NoFile
    /\ transcript_files = [id \in VideoIds |-> [youtube_api |-> NoRecord, whisper |-> NoRecord]]
    /\ summary_files = [id \in VideoIds |-> NoRecord]
    /\ markdown_file = NoFile
    /\ excel_file = NoFile
    /\ html_file = NoFile
    /\ schedule_file = NoFile
    /\ pc = "idle"
    /\ runs = 0
    /\ videos = << >>
    /\ transcripts = << >>
    /\ summaries = << >>
    /\ categorized = << >>
    /\ caption_requests = << >>
    /\ whisper_attempts = << >>
    /\ generation_requests = << >>
    /\ cat_call = NoCall
    /\ schedule_call = NoCall
    /\ call = NoCall

Init ==
    /\ config \in Configs
    /\ catalog \in Catalogs
    /\ InitPipeline

\* the record the collector builds from a listing item
collected(cat, id) == VideoRecord(id, cat[id].title, cat[id].description)

\* main(), lines 238-252, for a run after the first: a new process constructs
\* YouTubeLikesSummarizer, which reads the configuration file as it is then;
\* the stores on disk are what the earlier runs left
Construct ==
    /\ pc = "done"
    /\ runs < MaxRuns
    /\ config' \in Configs
    /\ pc' = "idle"
    /\ videos' = << >>
    /\ transcripts' = << >>
    /\ summaries' = << >>
    /\ categorized' = << >>
    /\ caption_requests' = << >>
    /\ whisper_attempts' = << >>
    /\ generation_requests' = << >>
    /\ UNCHANGED << catalog, likes_raw, transcript_files, summary_files,
                    markdown_file,
                    excel_file, html_file, schedule_file, runs, cat_call, schedule_call, call >>

\* run_full_pipeline, lines 58-64, with _collect_videos: the persisted
\* snapshot is returned only when force_refresh is off and CI is set;
\* otherwise the listing is fetched and the snapshot overwritten
CollectVideos ==
    /\ pc = "idle"
    /\ \E force_refresh \in BOOLEAN, ci \in BOOLEAN, listing \in Listings :
          LET fetched == [i \in 1..Len(listing) |-> collected(catalog, listing[i])]
              result == collect_videos(likes_raw, force_refresh, ci, fetched)
          IN  /\ videos' = result.videos
              /\ likes_raw' = result.likes_raw
    /\ pc' = after_collection(videos')
    /\ runs' = runs + 1
    /\ UNCHANGED << config, catalog, transcript_files, summary_files,
                    markdown_file, excel_file, html_file, schedule_file, transcripts, summaries,
                    categorized, caption_requests, whisper_attempts,
                    generation_requests, cat_call, schedule_call, call >>

\* the answers of the captions API and of the speech-recognition path to the
\* calls of one extraction pass; an answer is drawn only where the pass asks
ExtractAnswers(cat, use_whisper, files, vs) ==
    { envs \in [1..Len(vs) -> ExtractEnvs] :
        \A i \in 1..Len(vs) :
            /\ (~extracts_afresh(files, vs[i]) \/ cat[vs[i].video_id].captions = << >>)
                  => envs[i].api_ok
            /\ ~( /\ extracts_afresh(files, vs[i])
                  /\ use_whisper
                  /\ ~(envs[i].api_ok /\ cat[vs[i].video_id].captions # << >>) )
                  => envs[i].whisper = "ok" }

\* run_full_pipeline, lines 66-68, with _extract_transcripts
ExtractTranscripts ==
    /\ pc = "collected"
    /\ \E envs \in ExtractAnswers(catalog, config.use_whisper, transcript_files, videos) :
          LET ts == extract_transcripts(catalog, config.use_whisper,
                                        transcript_files, videos, envs)
          IN  /\ transcripts' = ts
              /\ transcript_files' = save_transcripts(transcript_files, ts)
              /\ caption_requests' = captions_asked(transcript_files, videos)
              /\ whisper_attempts' = whisper_tried(catalog, config.use_whisper,
                                                   transcript_files, videos, envs)
    /\ pc' = "extracted"
    /\ UNCHANGED << config, catalog, likes_raw, summary_files, markdown_file, excel_file, html_file,
                    schedule_file, runs, videos, summaries, categorized,
                    generation_requests, cat_call, schedule_call, call >>

\* run_full_pipeline, lines 70-72, with _generate_summaries
GenerateSummaries ==
    /\ pc = "extracted"
    /\ \E replies \in [1..Len(valid_transcripts(transcripts)) -> Replies] :
          LET ss == generate_summaries(summary_files, transcripts, replies)
          IN  /\ summaries' = ss
              /\ summary_files' = save_summaries(summary_files, ss)
    /\ generation_requests' = generation_asked(summary_files, transcripts)
    /\ pc' = "summarized"
    /\ UNCHANGED << config, catalog, likes_raw, transcript_files, markdown_file,
                    excel_file, html_file,
                    schedule_file, runs, videos, transcripts, categorized,
                    caption_requests, whisper_attempts, cat_call, schedule_call, call >>

\* run_full_pipeline, lines 74-76, with _categorize_videos
CategorizeVideos ==
    /\ pc = "summarized"
    /\ categorized' = categorize_batch(config.categories, videos, transcripts)
    /\ pc' = "categorized"
    /\ UNCHANGED << config, catalog, likes_raw, transcript_files, summary_files,
                    markdown_file, excel_file, html_file, schedule_file, runs, videos, transcripts,
                    summaries, caption_requests, whisper_attempts,
                    generation_requests, cat_call, schedule_call, call >>

\* run_full_pipeline, lines 78-86, with _generate_reports
GenerateReports ==
    /\ pc = "categorized"
    /\ markdown_file' = IF config.markdown_format
                        THEN generate_markdown_report(summaries, categorized)
                        ELSE markdown_file
    /\ excel_file' = IF config.excel_export
                     THEN LET book == generate_excel_report(summaries, categorized)
                          IN  IF book.written THEN book ELSE excel_file
                     ELSE excel_file
    /\ html_file' = generate_html_report(summaries, categorized)
    /\ \E today \in Todays :
          schedule_file' = review_schedule_step(summaries, today, schedule_file)
    /\ pc' = "done"
    /\ UNCHANGED << config, catalog, likes_raw, transcript_files, summary_files,
                    runs, videos, transcripts, summaries, categorized,
                    caption_requests, whisper_attempts, generation_requests,
                    cat_call, schedule_call, call >>

Next ==
    \/ Construct
    \/ CollectVideos
    \/ ExtractTranscripts
    \/ GenerateSummaries
    \/ CategorizeVideos
    \/ GenerateReports

Spec == Init /\ [][Next]_vars

-----------------------------------------------------------------------------
(* Direct calls of the pure functions, on inputs drawn from bounded sets *)

MaxCategories == 2   \* categories in a configuration
MaxTitleLen == 2     \* characters in a title

\* the sequences over S of length at most n
SeqsUpTo(S, n) == UNION { [1..k -> S] : k \in 0..n }

UnitNames == { "x", "y", DefaultCategory }

UnitKeywordLists ==
    { << << "a" >> >>, << << "B" >> >>, << << "a" >>, << "B" >> >>,
      << << "b", " ", "a" >> >> }

\* the category mappings: distinct labels, each with a keyword list
UnitCategories ==
    { c \in SeqsUpTo([name : UnitNames, keywords : UnitKeywordLists], MaxCategories) :
        \A i, j \in 1..Len(c) : c[i].name = c[j].name => i = j }

UnitTitles == SeqsUpTo({ "a", "A", "b" }, MaxTitleLen)

UnitDescriptions == { << >>, << "a" >> }

\* no transcript, a failed one, a short one, and two long ones with a keyword
\* as character 500 and as character 501
UnitTranscripts ==
    { NoRecord,
      TranscriptRecord("U", "no_transcript", Absent, Absent, Absent, Absent),
      TranscriptRecord("U", "success", "youtube_api", "ko", << "b" >>, << << "b" >> >>),
      TranscriptRecord("U", "success", "youtube_api", "ko",
                       Repeat("x", TranscriptPrefixLen - 1) \o << "B" >>, << >>),
      TranscriptRecord("U", "success", "youtube_api", "ko",
                       Repeat("x", TranscriptPrefixLen) \o << "a" >>, << >>) }

\* the inputs of the direct calls are drawn here, the calls are made once
InitCategorize ==
    /\ config \in [use_whisper : { FALSE }, fallback_only : { TRUE },
                   markdown_format : { TRUE },
                   excel_export : { TRUE }, categories : UnitCategories]
    /\ catalog = Catalog("ko", << << "o","k" >> >>)
    /\ likes_raw = NoFile
    /\ transcript_files = [id \in VideoIds |-> [youtube_api |-> NoRecord, whisper |-> NoRecord]]
    /\ summary_files = [id \in VideoIds |-> NoRecord]
    /\ markdown_file = NoFile
    /\ excel_file = NoFile
    /\ html_file = NoFile
    /\ schedule_file = NoFile
    /\ pc = "idle"
    /\ runs = 0
    /\ videos = << >>
    /\ transcripts = << >>
    /\ summaries = << >>
    /\ categorized = << >>
    /\ caption_requests = << >>
    /\ whisper_attempts = << >>
    /\ generation_requests = << >>
    /\ cat_call \in [called : { FALSE },
                     video : { VideoRecord("U", t, d) : t \in UnitTitles, d \in UnitDescriptions },
                     transcript : UnitTranscripts,
                     label : { Absent }]
    /\ schedule_call = NoCall
    /\ call = NoCall

\* a call of VideoCategorizer.categorize_video on the configured categorizer
CategorizeCall ==
    /\ ~cat_call.called
    /\ cat_call' = [cat_call EXCEPT
                       !.called = TRUE,
                       !.label = categorize_video(config.categories, cat_call.video,
                                                  cat_call.transcript)]
    /\ UNCHANGED << config, catalog, likes_raw, transcript_files, summary_files,
                    markdown_file,
                    excel_file, html_file, schedule_file, pc, runs, videos, transcripts,
                    summaries, categorized, caption_requests, whisper_attempts,
                    generation_requests, schedule_call, call >>

NextCategorize ==
    \/ CategorizeCall

SpecCategorize == InitCategorize /\ [][NextCategorize]_vars


MaxSummaries == 2    \* summaries handed to generate_review_schedule

\* summaries as _generate_summaries returns them: success records of either
\* type, and an error record, which has no type
UnitSummaries ==
    LET t1 == [TranscriptRecord("V1", "success", "whisper", "en", << "h","i" >>, << >>)
                 EXCEPT !.video_title = TitleAlgorithmBasics,
                        !.video_url = << "watch?v=", "V1" >>]
        t2 == [TranscriptRecord("V2", "success", "youtube_api", "ko", << "o","k" >>, << >>)
                 EXCEPT !.video_title = TitleMyDailyDiary,
                        !.video_url = << "watch?v=", "V2" >>]
    IN  { summarize_english_learning(t1, "summary A"),
          summarize_english_learning(t2, "summary B"),
          summarize_general(t2, "summary A"),
          summarize_general(t1, "fail") }

\* generation instants before the end of a leap and of a common February, at
\* the end of a 30-day and of a 31-day month, and at the end of a year
UnitTodays ==
    { [y |-> 2024, m |-> 2, d |-> 27, hour |-> 23],
      [y |-> 2025, m |-> 2, d |-> 27, hour |-> 0],
      [y |-> 2025, m |-> 1, d |-> 31, hour |-> 12],
      [y |-> 2025, m |-> 4, d |-> 30, hour |-> 9],
      [y |-> 2025, m |-> 12, d |-> 30, hour |-> 0],
      [y |-> 2100, m |-> 2, d |-> 14, hour |-> 6] }

\* a schedule file left by an earlier run
OldScheduleFile == [written |-> TRUE, today |-> [y |-> 2024, m |-> 1, d |-> 1, hour |-> 0],
                    buckets |-> << >>]

\* the inputs of the direct call are drawn here, the call is made once
InitSchedule ==
    /\ config \in [use_whisper : { FALSE }, fallback_only : { TRUE },
                   markdown_format : { TRUE },
                   excel_export : { TRUE }, categories : { ScenarioCategories }]
    /\ catalog = Catalog("ko", << << "o","k" >> >>)
    /\ likes_raw = NoFile
    /\ transcript_files = [id \in VideoIds |-> [youtube_api |-> NoRecord, whisper |-> NoRecord]]
    /\ summary_files = [id \in VideoIds |-> NoRecord]
    /\ markdown_file = NoFile
    /\ excel_file = NoFile
    /\ html_file = NoFile
    /\ schedule_file \in { NoFile, OldScheduleFile }
    /\ pc = "idle"
    /\ runs = 0
    /\ videos = << >>
    /\ transcripts = << >>
    /\ summaries = << >>
    /\ categorized = << >>
    /\ caption_requests = << >>
    /\ whisper_attempts = << >>
    /\ generation_requests = << >>
    /\ cat_call = NoCall
    /\ schedule_call \in [called : { FALSE },
                          summaries : SeqsUpTo(UnitSummaries, MaxSummaries),
                          today : UnitTodays,
                          file_before : { schedule_file },
                          schedule : { << >> }]
    /\ call = NoCall

\* a call of ReportGenerator.generate_review_schedule
ReviewScheduleCall ==
    /\ ~schedule_call.called
    /\ LET result == generate_review_schedule(schedule_call.summaries,
                                              schedule_call.today, schedule_file)
       IN  /\ schedule_call' = [schedule_call EXCEPT !.called = TRUE,
                                                     !.schedule = result.schedule]
           /\ schedule_file' = result.file
    /\ UNCHANGED << config, catalog, likes_raw, transcript_files, summary_files,
                    markdown_file, excel_file, html_file, pc, runs, videos, transcripts, summaries,
                    categorized, caption_requests, whisper_attempts,
                    generation_requests, cat_call, call >>

NextSchedule ==
    \/ ReviewScheduleCall

SpecSchedule == InitSchedule /\ [][NextSchedule]_vars

\* the stores, the run's locals and the other call records, untouched by a
\* direct call
InitIdle ==
    /\ likes_raw = NoFile
    /\ transcript_files = [id \in VideoIds |-> [youtube_api |-> NoRecord, whisper |-> NoRecord]]
    /\ summary_files = [id \in VideoIds |-> NoRecord]
    /\ markdown_file = NoFile
    /\ excel_file = NoFile
    /\ html_file = NoFile
    /\ schedule_file = NoFile
    /\ pc = "idle"
    /\ runs = 0
    /\ videos = << >>
    /\ transcripts = << >>
    /\ summaries = << >>
    /\ categorized = << >>
    /\ caption_requests = << >>
    /\ whisper_attempts = << >>
    /\ generation_requests = << >>
    /\ cat_call = NoCall
    /\ schedule_call = NoCall

\* platforms for the direct calls of the extractor: the two of the pipeline,
\* and one whose caption entries for V2 lack the 'text' key
ExtractCatalogs == Catalogs \cup { Catalog("en", Absent) }

\* the inputs of the direct call are drawn here, the call is made once.
\* An audio file found on disk is not downloaded, so no download fails then.
InitExtract ==
    /\ config \in Configs
    /\ catalog \in ExtractCatalogs
    /\ InitIdle
    /\ call \in { c \in [called : { FALSE },
                          video_id : VideoIds,
                          url : { << >> } \cup { << "watch?v=", id >> : id \in VideoIds },
                          env : ExtractEnvs,
                          audio_on_disk : BOOLEAN,
                          remove_ok : BOOLEAN,
                          record : { NoRecord },
                          whisper_entered : { FALSE },
                          audio : { [obtained |-> FALSE, remove_attempted |-> FALSE,
                                     on_disk |-> FALSE] }] :
                     /\ c.url \in { << >>, << "watch?v=", c.video_id >> }
                     /\ ~(c.audio_on_disk /\ c.env.whisper = "download_failed") }

\* a call of TranscriptExtractor.extract_transcript on the configured
\* extractor, with what it does to the audio file
ExtractCall ==
    /\ ~call.called
    /\ LET entered ==
               whisper_step(config.use_whisper, call.url,
                            extract_youtube_transcript(catalog, call.video_id,
                                                       LanguagePreference, call.env.api_ok))
       IN  call' = [call EXCEPT
                       !.called = TRUE,
                       !.record = extract_transcript(catalog, config.use_whisper,
                                                     call.video_id, call.url, call.env),
                       !.whisper_entered = entered,
                       !.audio = IF entered
                                 THEN whisper_audio(call.audio_on_disk, call.env.whisper,
                                                    call.remove_ok)
                                 ELSE [obtained |-> FALSE, remove_attempted |-> FALSE,
                                       on_disk |-> call.audio_on_disk]]
    /\ UNCHANGED << config, catalog, likes_raw, transcript_files, summary_files,
                    markdown_file,
                    excel_file, html_file, schedule_file, pc, runs, videos, transcripts,
                    summaries, categorized, caption_requests, whisper_attempts,
                    generation_requests, cat_call, schedule_call >>

NextExtract ==
    \/ ExtractCall

SpecExtract == InitExtract /\ [][NextExtract]_vars


MaxPages == 2        \* pages of the upstream listing
MaxPageSize == 2     \* items on a page
MaxResults == 3      \* the argument max_results

\* the upstream listings: at least one page, each page a list of items
UpstreamListings ==
    { pages \in SeqsUpTo(SeqsUpTo(VideoIds, MaxPageSize), MaxPages) : pages # << >> }

\* the inputs of the direct call are drawn here, the call is made once
InitCollect ==
    /\ config \in [use_whisper : { FALSE }, fallback_only : { TRUE },
                   markdown_format : { TRUE },
                   excel_export : { TRUE }, categories : { ScenarioCategories }]
    /\ catalog = Catalog("ko", << << "o","k" >> >>)
    /\ InitIdle
    /\ call \in [called : { FALSE },
                 pages : UpstreamListings,
                 max_results : 1..MaxResults,
                 liked_videos : { << >> },
                 requests : { 0 }]

\* a call of YouTubeCollector.get_liked_videos
GetLikedVideosCall ==
    /\ ~call.called
    /\ LET result == get_liked_videos(call.pages, call.max_results)
       IN  call' = [call EXCEPT
                       !.called = TRUE,
                       !.liked_videos = [i \in 1..Len(result.liked_videos) |->
                                            collected(catalog, result.liked_videos[i])],
                       !.requests = result.requests]
    /\ UNCHANGED << config, catalog, likes_raw, transcript_files, summary_files,
                    markdown_file,
                    excel_file, html_file, schedule_file, pc, runs, videos, transcripts,
                    summaries, categorized, caption_requests, whisper_attempts,
                    generation_requests, cat_call, schedule_call >>

NextCollect ==
    \/ GetLikedVideosCall

SpecCollect == InitCollect /\ [][NextCollect]_vars

\* the states token.pickle can be in: valid credentials are not expired
CachedTokens ==
    { NoToken, CorruptToken } \cup
    { c \in [state : { "creds" }, valid : BOOLEAN, expired : BOOLEAN,
             refresh_token : BOOLEAN, origin : { "login" }] : c.valid => ~c.expired }

\* the inputs of the direct call are drawn here, the call is made once
InitAuthenticate ==
    /\ config \in [use_whisper : { FALSE }, fallback_only : { TRUE },
                   markdown_format : { TRUE },
                   excel_export : { TRUE }, categories : { ScenarioCategories }]
    /\ catalog = Catalog("ko", << << "o","k" >> >>)
    /\ InitIdle
    /\ call \in [called : { FALSE },
                 token_before : CachedTokens,
                 refresh_ok : BOOLEAN,
                 login_ok : BOOLEAN,
                 write_ok : BOOLEAN,
                 result : { [refresh_attempted |-> FALSE, prompted |-> FALSE,
                             raised |-> FALSE, credentials |-> NoToken,
                             token |-> NoToken] }]

\* a call of YouTubeCollector.authenticate
AuthenticateCall ==
    /\ ~call.called
    /\ call' = [call EXCEPT
                    !.called = TRUE,
                    !.result = authenticate(call.token_before, call.refresh_ok,
                                            call.login_ok, call.write_ok)]
    /\ UNCHANGED << config, catalog, likes_raw, transcript_files, summary_files,
                    markdown_file,
                    excel_file, html_file, schedule_file, pc, runs, videos, transcripts,
                    summaries, categorized, caption_requests, whisper_attempts,
                    generation_requests, cat_call, schedule_call >>

NextAuthenticate ==
    \/ AuthenticateCall

SpecAuthenticate == InitAuthenticate /\ [][NextAuthenticate]_vars

\* transcripts handed to the summarizer: two success records and one of each
\* failure status
SummarizerTranscripts ==
    { [TranscriptRecord("V1", "success", "whisper", "en", << "h","i" >>, << >>)
         EXCEPT !.video_title = TitleAlgorithmBasics, !.video_url = << "watch?v=", "V1" >>],
      [TranscriptRecord("V2", "success", "youtube_api", "ko", << "o","k" >>, << >>)
         EXCEPT !.video_title = TitleMyDailyDiary, !.video_url = << "watch?v=", "V2" >>],
      TranscriptRecord("V1", "no_transcript", Absent, Absent, Absent, << >>),
      TranscriptRecord("V2", "error", Absent, Absent, Absent, << >>) }

\* the inputs of the direct call are drawn here, the call is made once.
\* answers[i]: what the i-th generation request of the call would receive
InitSummarize ==
    /\ config \in [use_whisper : { FALSE }, fallback_only : { TRUE },
                   markdown_format : { TRUE },
                   excel_export : { TRUE }, categories : { ScenarioCategories }]
    /\ catalog = Catalog("ko", << << "o","k" >> >>)
    /\ InitIdle
    /\ call \in [called : { FALSE }, transcript : SummarizerTranscripts,
                 english : BOOLEAN, answers : Replies \X Replies,
                 record : { NoRecord }, requests : { 0 }]

\* one call of summarize_english_learning or of summarize_general
SummarizeCall ==
    /\ ~call.called
    /\ call' = [call EXCEPT
                  !.called = TRUE,
                  !.record = IF call.english
                             THEN summarize_english_learning(call.transcript, call.answers[1])
                             ELSE summarize_general(call.transcript, call.answers[1]),
                  !.requests = summarizer_requests(call.transcript)]
    /\ UNCHANGED << config, catalog, likes_raw, transcript_files, summary_files,
                    markdown_file,
                    excel_file, html_file, schedule_file, pc, runs, videos, transcripts,
                    summaries, categorized, caption_requests, whisper_attempts,
                    generation_requests, cat_call, schedule_call >>

NextSummarize == SummarizeCall

SpecSummarize == InitSummarize /\ [][NextSummarize]_vars

MaxReportSummaries == 2    \* summaries handed to the report generators

\* summaries as the summarizer returns them: success records of either type,
\* an error record and a skipped record
ReportSummaries ==
    UnitSummaries \cup
    { summarize_general(TranscriptRecord("V2", "no_transcript", Absent, Absent, Absent, << >>),
                        "summary B") }

ReportLabels == { "tech", "life", DefaultCategory }

\* a grouping as categorize_batch returns it: each identifier under one
\* label or, when the video is not among the categorized ones, under none
ReportGrouping(assign) ==
    [c \in { assign[id] : id \in VideoIds } \ { Absent } |->
        LET ids == SelectSeq(<< "V1", "V2" >>, LAMBDA id : assign[id] = c)
        IN  [i \in 1..Len(ids) |->
                [video_id |-> ids[i], title |-> << >>, description |-> << >>,
                 url |-> << "watch?v=", ids[i] >>, category |-> c]]]

ReportGroupings ==
    { ReportGrouping(assign) : assign \in [VideoIds -> ReportLabels \cup { Absent }] }

\* the inputs of the direct calls are drawn here, the calls are made once
InitReport ==
    /\ config \in [use_whisper : { FALSE }, fallback_only : { TRUE },
                   markdown_format : { TRUE },
                   excel_export : { TRUE }, categories : { ScenarioCategories }]
    /\ catalog = Catalog("ko", << << "o","k" >> >>)
    /\ InitIdle
    /\ call \in [called : { FALSE },
                 summaries : SeqsUpTo(ReportSummaries, MaxReportSummaries),
                 categorized : ReportGroupings,
                 today : { [y |-> 2025, m |-> 1, d |-> 31, hour |-> 12] },
                 markdown : { NoFile }, excel : { NoFile }, html : { NoFile },
                 schedule : { << >> }]

\* _generate_reports' four renderings of one summary list and one grouping
ReportCall ==
    /\ ~call.called
    /\ call' = [call EXCEPT
                  !.called = TRUE,
                  !.markdown = generate_markdown_report(call.summaries, call.categorized),
                  !.excel = generate_excel_report(call.summaries, call.categorized),
                  !.html = generate_html_report(call.summaries, call.categorized),
                  !.schedule = generate_review_schedule(call.summaries, call.today,
                                                        NoFile).schedule]
    /\ UNCHANGED << config, catalog, likes_raw, transcript_files, summary_files,
                    markdown_file,
                    excel_file, html_file, schedule_file, pc, runs, videos, transcripts,
                    summaries, categorized, caption_requests, whisper_attempts,
                    generation_requests, cat_call, schedule_call >>

NextReport == ReportCall

SpecReport == InitReport /\ [][NextReport]_vars

\* the snapshots data/likes_raw.json can hold: none, or a written listing
Snapshots ==
    { NoFile } \cup
    { [written |-> TRUE,
       videos |-> [i \in 1..Len(l) |-> collected(Catalog("ko", << << "o","k" >> >>), l[i])]] :
        l \in Listings }

\* the inputs of the direct call are drawn here, the call is made once
InitCollectVideos ==
    /\ config \in [use_whisper : { FALSE }, fallback_only : { TRUE },
                   markdown_format : { TRUE },
                   excel_export : { TRUE }, categories : { ScenarioCategories }]
    /\ catalog = Catalog("ko", << << "o","k" >> >>)
    /\ likes_raw \in Snapshots
    /\ transcript_files = [id \in VideoIds |-> [youtube_api |-> NoRecord, whisper |-> NoRecord]]
    /\ summary_files = [id \in VideoIds |-> NoRecord]
    /\ markdown_file = NoFile
    /\ excel_file = NoFile
    /\ html_file = NoFile
    /\ schedule_file = NoFile
    /\ pc = "idle"
    /\ runs = 0
    /\ videos = << >>
    /\ transcripts = << >>
    /\ summaries = << >>
    /\ categorized = << >>
    /\ caption_requests = << >>
    /\ whisper_attempts = << >>
    /\ generation_requests = << >>
    /\ cat_call = NoCall
    /\ schedule_call = NoCall
    /\ call \in [called : { FALSE }, snapshot_before : { likes_raw },
                 force_refresh : BOOLEAN, ci : BOOLEAN, listing : Listings,
                 videos : { << >> }, authenticated : { FALSE }, listed : { FALSE },
                 prompted : { FALSE }, after : { "idle" }]

\* one call of _collect_videos, and where run_full_pipeline stands after it
CollectVideosCall ==
    /\ ~call.called
    /\ LET fetched == [i \in 1..Len(call.listing) |-> collected(catalog, call.listing[i])]
           result == collect_videos(likes_raw, call.force_refresh, call.ci, fetched)
       IN  /\ call' = [call EXCEPT !.called = TRUE,
                                   !.videos = result.videos,
                                   !.authenticated = result.authenticated,
                                   !.listed = result.listed,
                                   !.prompted = result.prompted,
                                   !.after = after_collection(result.videos)]
           /\ likes_raw' = result.likes_raw
    /\ UNCHANGED << config, catalog, transcript_files, summary_files,
                    markdown_file, excel_file, html_file, schedule_file, pc, runs,
                    videos, transcripts, summaries, categorized, caption_requests,
                    whisper_attempts, generation_requests, cat_call, schedule_call >>

NextCollectVideos == CollectVideosCall

SpecCollectVideos == InitCollectVideos /\ [][NextCollectVideos]_vars

MaxBatch == 2    \* videos, and transcripts, handed to categorize_batch

\* videos whose title names a category and videos whose title names none
BatchVideos ==
    { VideoRecord("V1", TitleAlgorithmBasics, << >>),
      VideoRecord("V2", TitleMyDailyDiary, << >>),
      VideoRecord("V1", << "x" >>, << >>),
      VideoRecord("V2", << "x" >>, << >>) }

\* transcripts whose text names a category, one that names none and a failed one
BatchTranscripts ==
    { TranscriptRecord("V1", "success", "youtube_api", "ko", KeywordDiary, << >>),
      TranscriptRecord("V1", "success", "whisper", "en", << "h","i" >>, << >>),
      TranscriptRecord("V2", "success", "youtube_api", "ko", KeywordAlgorithm, << >>),
      TranscriptRecord("V2", "no_transcript", Absent, Absent, Absent, << >>) }

\* the inputs of the direct call are drawn here, the call is made once; an
\* empty transcript list stands for the default None as well
InitCategorizeBatch ==
    /\ config \in [use_whisper : { FALSE }, fallback_only : { TRUE },
                   markdown_format : { TRUE },
                   excel_export : { TRUE }, categories : { ScenarioCategories }]
    /\ catalog = Catalog("ko", << << "o","k" >> >>)
    /\ InitIdle
    /\ call \in [called : { FALSE },
                 videos : SeqsUpTo(BatchVideos, MaxBatch),
                 transcripts : SeqsUpTo(BatchTranscripts, MaxBatch),
                 categorized : { << >> }]

\* one call of VideoCategorizer.categorize_batch on the configured categorizer
CategorizeBatchCall ==
    /\ ~call.called
    /\ call' = [call EXCEPT
                  !.called = TRUE,
                  !.categorized = categorize_batch(config.categories, call.videos,
                                                   call.transcripts)]
    /\ UNCHANGED << config, catalog, likes_raw, transcript_files, summary_files,
                    markdown_file, excel_file, html_file, schedule_file, pc, runs,
                    videos, transcripts, summaries, categorized, caption_requests,
                    whisper_attempts, generation_requests, cat_call, schedule_call >>

NextCategorizeBatch == CategorizeBatchCall

SpecCategorizeBatch == InitCategorizeBatch /\ [][NextCategorizeBatch]_vars

\* success transcripts of V1 in each language tag the predicate knows and in
\* one it does not, under a title without a keyword, with a keyword in
\* capitals and with the Hangul keyword
SelectionTranscripts ==
    { [TranscriptRecord("V1", "success", "youtube_api", language, << "h","i" >>, << >>)
         EXCEPT !.video_title = title, !.video_url = << "watch?v=", "V1" >>] :
        language \in EnglishLanguages \cup { "ko" },
        title \in { << "x" >>,
                    << "T","O","E","I","C"," ","9","0","0" >>,
                    << "U+C601", "U+C5B4", " ", "x" >> } }

\* data/summaries/V1_summary.json: absent, or a success summary of either type
StoredSummaries ==
    LET t == [TranscriptRecord("V1", "success", "youtube_api", "ko", << "o","k" >>, << >>)
                EXCEPT !.video_title = << "x" >>, !.video_url = << "watch?v=", "V1" >>]
    IN  { NoRecord, summarize_general(t, "summary B"),
          summarize_english_learning(t, "summary B") }

\* the inputs of the direct call are drawn here, the call is made once
InitSelect ==
    /\ config \in [use_whisper : { FALSE }, fallback_only : { TRUE },
                   markdown_format : { TRUE },
                   excel_export : { TRUE }, categories : { ScenarioCategories }]
    /\ catalog = Catalog("ko", << << "o","k" >> >>)
    /\ likes_raw = NoFile
    /\ transcript_files = [id \in VideoIds |-> [youtube_api |-> NoRecord, whisper |-> NoRecord]]
    /\ \E stored \in StoredSummaries :
          summary_files = [id \in VideoIds |-> IF id = "V1" THEN stored ELSE NoRecord]
    /\ markdown_file = NoFile
    /\ excel_file = NoFile
    /\ html_file = NoFile
    /\ schedule_file = NoFile
    /\ pc = "idle"
    /\ runs = 0
    /\ videos = << >>
    /\ transcripts = << >>
    /\ summaries = << >>
    /\ categorized = << >>
    /\ caption_requests = << >>
    /\ whisper_attempts = << >>
    /\ generation_requests = << >>
    /\ cat_call = NoCall
    /\ schedule_call = NoCall
    /\ call \in [called : { FALSE }, transcript : SelectionTranscripts,
                 reply : Replies, record : { NoRecord }, checks : { 0 }]

\* one pass of the loop body of _generate_summaries, lines 168-183
SelectCall ==
    /\ ~call.called
    /\ call' = [call EXCEPT
                  !.called = TRUE,
                  !.record = summarize_item(summary_files, call.transcript, call.reply),
                  !.checks = english_checks(summary_files, call.transcript)]
    /\ UNCHANGED << config, catalog, likes_raw, transcript_files, summary_files,
                    markdown_file, excel_file, html_file, schedule_file, pc, runs,
                    videos, transcripts, summaries, categorized, caption_requests,
                    whisper_attempts, generation_requests, cat_call, schedule_call >>

NextSelect == SelectCall

SpecSelect == InitSelect /\ [][NextSelect]_vars

-----------------------------------------------------------------------------
(* Properties *)

\* the text the claims' scores are counted in: title, description and, for a
\* success transcript, its first 500 characters, joined by single blanks
ClaimText(video, transcript) ==
    IF transcript.status = "success"
    THEN video.title \o Space \o video.description \o Space
            \o SubSeq(transcript.text, 1,
                      IF Len(transcript.text) < 500 THEN Len(transcript.text) ELSE 500)
    ELSE video.title \o Space \o video.description

\* the scores of the configured categories, by position: for each the number
\* of its keywords occurring in the text, case ignored
ClaimScores(categories, video, transcript) ==
    LET text == Lower(ClaimText(video, transcript))
    IN  [i \in 1..Len(categories) |->
            Cardinality({ j \in 1..Len(categories[i].keywords) :
                Contains(Lower(categories[i].keywords[j]), text) })]

\* the scores of the direct call
CallScores == ClaimScores(config.categories, cat_call.video, cat_call.transcript)

MaxOf(S) == CHOOSE m \in S : \A n \in S : n <= m

\* the positions whose score is the maximum, when that maximum is positive
TiedAtMax(scores) ==
    IF \A i \in DOMAIN scores : scores[i] = 0 THEN {}
    ELSE LET top == MaxOf(Range(scores))
         IN  { i \in DOMAIN scores : scores[i] = top }

\* C3: when two or more categories share the maximum positive keyword score,
\* categorize_video returns the one of them declared earliest in the
\* configuration mapping.
C3_TieBreakEarliest ==
    cat_call.called =>
        LET tied == TiedAtMax(CallScores)
        IN  Cardinality(tied) >= 2 =>
               cat_call.label =
                   config.categories[CHOOSE i \in tied : \A j \in tied : i <= j].name

\* a call in which two categories tie at a positive maximum and the earlier
\* one is returned
C3_Witness ==
    /\ cat_call.called
    /\ Cardinality(TiedAtMax(CallScores)) >= 2
    /\ cat_call.label = config.categories[1].name
    /\ cat_call.label # config.categories[2].name

\* the positions of the configured categories bearing the returned label
LabelPositions == { i \in 1..Len(config.categories) : config.categories[i].name = cat_call.label }

AllScoresZero(scores) == \A i \in DOMAIN scores : scores[i] = 0

\* the returned label is a configured category whose score is maximal
LabelHasMaxScore(scores) ==
    \E i \in LabelPositions : \A j \in DOMAIN scores : scores[j] <= scores[i]

\* C4 as stated: the returned label is a category of maximal score, and it is
\* the default label exactly when every category scores zero.
C4_AsStated ==
    cat_call.called =>
        LET scores == CallScores
        IN  /\ ~AllScoresZero(scores) => LabelHasMaxScore(scores)
            /\ (cat_call.label = DefaultCategory) <=> AllScoresZero(scores)

\* C4, amended: with the score of a category the number of its keywords found,
\* case ignored, in title, description and success-transcript prefix, the
\* default label is returned whenever every category scores zero; otherwise
\* the label of a category of maximal score is returned, which is the default
\* label only if a configured category bears that name.
C4_CategorizeResult ==
    cat_call.called =>
        LET scores == CallScores
        IN  /\ AllScoresZero(scores) => cat_call.label = DefaultCategory
            /\ ~AllScoresZero(scores) => LabelHasMaxScore(scores)
            /\ (cat_call.label = DefaultCategory /\ LabelPositions = {})
                  => AllScoresZero(scores)

\* a call decided by the transcript prefix alone: the keyword is character
\* 500 of the transcript, and a category with a positive score is returned
C4_Witness ==
    /\ cat_call.called
    /\ cat_call.transcript.status = "success"
    /\ Len(cat_call.transcript.text) = TranscriptPrefixLen
    /\ LET scores == CallScores
       IN  ~AllScoresZero(scores) /\ LabelHasMaxScore(scores)
    /\ keyword_score(config.categories[1].keywords,
                     Lower(cat_call.video.title \o Space \o cat_call.video.description)) = 0

\* the day number of a date string (days since 1970-01-01), by the closed
\* formula for the proleptic Gregorian calendar
DayNumber(date) ==
    LET y == IF date[2] <= 2 THEN date[1] - 1 ELSE date[1]
        era == y \div 400
        yoe == y - era * 400
        mp == IF date[2] > 2 THEN date[2] - 3 ELSE date[2] + 9
        doy == (153 * mp + 2) \div 5 + date[3] - 1
        doe == yoe * 365 + yoe \div 4 - yoe \div 100 + doy
    IN  era * 146097 + doe - 719468

\* the success summaries of type english_learning handed to the call
CallEnglish ==
    SelectSeq(schedule_call.summaries,
              LAMBDA s : s.status = "success" /\ s.type = "english_learning")

\* C6: for a summary set with at least one success summary of type
\* english_learning, generate_review_schedule returns exactly 5 date buckets,
\* one for each of the offsets 1, 3, 7, 14 and 30 days after the generation
\* instant, and every bucket lists every such summary exactly once; for a set
\* with none the schedule is empty and the schedule file is not written.
C6_ReviewSchedule ==
    schedule_call.called =>
        LET schedule == schedule_call.schedule
            today == DayNumber(DateString(schedule_call.today))
        IN  IF CallEnglish # << >>
            THEN /\ Cardinality(DOMAIN schedule) = 5
                 /\ { DayNumber(date) - today : date \in DOMAIN schedule } = { 1, 3, 7, 14, 30 }
                 /\ \A date \in DOMAIN schedule :
                       /\ Len(schedule[date]) = Len(CallEnglish)
                       /\ \A i \in 1..Len(CallEnglish) :
                             /\ schedule[date][i].title = CallEnglish[i].video_title
                             /\ schedule[date][i].url = CallEnglish[i].video_url
                 /\ schedule_file.written /\ schedule_file.buckets = schedule
            ELSE /\ schedule = << >>
                 /\ schedule_file = schedule_call.file_before

\* a call with two language-learning summaries, made on 27 February of a
\* leap year: five buckets of two entries each, the last on 28 March
C6_Witness ==
    /\ schedule_call.called
    /\ Len(CallEnglish) = 2
    /\ schedule_call.today.y = 2024 /\ schedule_call.today.m = 2
    /\ Cardinality(DOMAIN schedule_call.schedule) = 5
    /\ << 2024, 3, 28 >> \in DOMAIN schedule_call.schedule
    /\ Len(schedule_call.schedule[<< 2024, 3, 28 >>]) = 2

-----------------------------------------------------------------------------
(* Properties of the pipeline *)

\* the records of this run's lists for one identifier, in list order
TranscriptsOf(id) == SelectSeq(transcripts, LAMBDA t : t.video_id = id)

SummariesOf(id) == SelectSeq(summaries, LAMBDA r : r.video_id = id)

\* the categories one identifier was grouped under
GroupsOf(id) ==
    { c \in DOMAIN categorized :
        \E i \in 1..Len(categorized[c]) : categorized[c][i].video_id = id }

\* some transcript file exists for the identifier
TranscriptPersisted(id) ==
    \/ transcript_files[id].youtube_api.status # Absent
    \/ transcript_files[id].whisper.status # Absent

\* C1: once a summary is persisted for an identifier it stays persisted,
\* unchanged, and every later _generate_summaries pass that has a success
\* transcript for that identifier returns the persisted record for it and
\* issues no generation request for it.
C1_SummaryMemoization ==
    [][ \A id \in VideoIds :
          summary_files[id].status # Absent =>
            /\ summary_files'[id] = summary_files[id]
            /\ (pc = "extracted" /\ pc' = "summarized") =>
                  \A i \in 1..Len(transcripts) :
                     (transcripts[i].video_id = id /\ transcripts[i].status = "success") =>
                        /\ \A k \in 1..Len(generation_requests') :
                               generation_requests'[k] # id
                        /\ \E k \in 1..Len(summaries') :
                               summaries'[k].video_id = id
                        /\ \A k \in 1..Len(summaries') :
                               summaries'[k].video_id = id =>
                                  summaries'[k] = summary_files[id] ]_vars

\* a second run whose summarisation pass reuses the persisted summary of V2,
\* issuing no request for it, while it does issue one for V1
C1_Witness ==
    /\ pc = "summarized"
    /\ runs = 2
    /\ Len(SummariesOf("V2")) = 1
    /\ SummariesOf("V2")[1] = summary_files["V2"]
    /\ summary_files["V2"].status = "success"
    /\ \A k \in 1..Len(generation_requests) : generation_requests[k] # "V2"
    /\ \E k \in 1..Len(generation_requests) : generation_requests[k] = "V1"

\* C2 as stated: in a run with speech recognition disabled, a video the
\* platform offers no captions for has only no_transcript records and no
\* summary record.
C2_AsStated ==
    ~config.use_whisper =>
        \A id \in VideoIds :
            catalog[id].captions = << >> =>
                /\ \A i \in 1..Len(transcripts) :
                      transcripts[i].video_id = id => transcripts[i].status = "no_transcript"
                /\ \A k \in 1..Len(summaries) : summaries[k].video_id # id

\* C2, amended: for a video the platform offers no captions for, with speech
\* recognition disabled, extract_transcript returns status no_transcript
\* whatever the API does; and in a run with speech recognition disabled that
\* finds no transcript persisted for the video, every transcript record for it
\* has status no_transcript and no summary record for it is returned or
\* persisted.
C2_NoCaptionsNoWhisper ==
    \A id \in VideoIds :
        catalog[id].captions = << >> =>
            /\ \A env \in ExtractEnvs :
                  extract_transcript(catalog, FALSE, id, << "watch?v=", id >>, env).status
                      = "no_transcript"
            /\ (~config.use_whisper /\ ~TranscriptPersisted(id)) =>
                  /\ \A i \in 1..Len(transcripts) :
                        transcripts[i].video_id = id =>
                            transcripts[i].status = "no_transcript"
                  /\ \A k \in 1..Len(summaries) : summaries[k].video_id # id
                  /\ summary_files[id].status = Absent

\* a finished run with speech recognition disabled in which the captions of
\* V1 were asked for and not found, and V2 was summarised
C2_Witness ==
    /\ pc = "done"
    /\ ~config.use_whisper
    /\ catalog["V1"].captions = << >>
    /\ \E k \in 1..Len(caption_requests) : caption_requests[k] = "V1"
    /\ Len(TranscriptsOf("V1")) = 1
    /\ TranscriptsOf("V1")[1].status = "no_transcript"
    /\ SummariesOf("V1") = << >>
    /\ Len(SummariesOf("V2")) = 1
    /\ SummariesOf("V2")[1].status = "success"

\* the end-to-end scenario: a first run, with speech recognition disabled,
\* over V1 (no captions) and V2 (a success transcript in a language other
\* than English), under the categories {tech: [algorithm], life: [diary]}
Scenario ==
    /\ pc = "done"
    /\ runs = 1
    /\ ~config.use_whisper
    /\ config.categories = ScenarioCategories
    /\ Len(videos) = 2
    /\ videos[1].video_id = "V1" /\ videos[1].title = TitleAlgorithmBasics
    /\ videos[2].video_id = "V2" /\ videos[2].title = TitleMyDailyDiary
    /\ catalog["V1"].captions = << >>
    /\ Len(TranscriptsOf("V2")) = 1
    /\ TranscriptsOf("V2")[1].status = "success"
    /\ TranscriptsOf("V2")[1].language \notin EnglishLanguages

\* whether the first 500 characters of V2's transcript mention "algorithm"
V2MentionsAlgorithm ==
    LET text == TranscriptsOf("V2")[1].text
        n == IF Len(text) < 500 THEN Len(text) ELSE 500
    IN  \E i \in 0..(n - Len(KeywordAlgorithm)) :
           \A j \in 1..Len(KeywordAlgorithm) : LowerChar(text[i + j]) = KeywordAlgorithm[j]

ReportScenario ==
    /\ Scenario
    /\ config.markdown_format
    /\ GroupsOf("V2") = { "life" }
    /\ Len(SummariesOf("V2")) = 1
    /\ SummariesOf("V2")[1].status = "success"

\* the report has a section headed life whose entries are V2's summary
LifeSectionHoldsV2 ==
    /\ markdown_file.written
    /\ \E i \in 1..Len(markdown_file.sections) :
          /\ markdown_file.sections[i].category = "life"
          /\ markdown_file.sections[i].entries = SummariesOf("V2")

\* C8 as stated: in the scenario the Markdown report contains both a life
\* section holding V2's summary and the notice about videos without
\* extractable captions.
C8_AsStated ==
    ReportScenario => (LifeSectionHoldsV2 /\ markdown_file.notice)

\* C8, amended: in the scenario the Markdown report contains a life section
\* holding V2's summary and no notice; in any run that writes the report, the
\* notice is written exactly when no summary of the run has status success,
\* and then in place of every category section.
C8_ScenarioReport ==
    /\ ReportScenario => (LifeSectionHoldsV2 /\ ~markdown_file.notice)
    /\ (pc = "done" /\ videos # << >> /\ config.markdown_format) =>
          /\ markdown_file.written
          /\ markdown_file.notice <=>
                (\A k \in 1..Len(summaries) : summaries[k].status # "success")
          /\ markdown_file.notice => markdown_file.sections = << >>

\* the scenario's report: a life section with V2's summary, a tech section
\* with no entry, and no notice
C8_Witness ==
    /\ ReportScenario
    /\ LifeSectionHoldsV2
    /\ ~markdown_file.notice
    /\ \E i \in 1..Len(markdown_file.sections) :
          /\ markdown_file.sections[i].category = "tech"
          /\ markdown_file.sections[i].entries = << >>

\* C9: in every extraction pass, a video for whose identifier a transcript
\* is persisted when the pass reaches it causes no caption request and no
\* speech-recognition attempt (audio download included), the record returned
\* for it is the persisted one, unaltered, and the files stay as they were;
\* when both a platform-captions file and a speech-recognition file exist,
\* the platform-captions record is the one returned.
C9_TranscriptMemoization ==
    [][ (pc = "collected" /\ pc' = "extracted") =>
          \A i \in 1..Len(videos) :
             LET id == videos[i].video_id
                 persisted == transcript_files[id]
             IN  (persisted.youtube_api.status # Absent \/ persisted.whisper.status # Absent) =>
                    /\ \A k \in 1..Len(caption_requests') : caption_requests'[k] # id
                    /\ \A k \in 1..Len(whisper_attempts') : whisper_attempts'[k] # id
                    /\ transcripts'[i] = IF persisted.youtube_api.status # Absent
                                         THEN persisted.youtube_api
                                         ELSE persisted.whisper
                    /\ transcript_files'[id] = persisted ]_vars

\* an extraction pass that found both files persisted for V2 and returned
\* the platform-captions record, asking nothing for V2
C9_Witness ==
    /\ pc = "extracted"
    /\ runs = 2
    /\ transcript_files["V2"].youtube_api.status = "success"
    /\ transcript_files["V2"].whisper.status = "success"
    /\ transcript_files["V2"].youtube_api.text # transcript_files["V2"].whisper.text
    /\ Len(TranscriptsOf("V2")) = 1
    /\ TranscriptsOf("V2")[1] = transcript_files["V2"].youtube_api
    /\ \A k \in 1..Len(caption_requests) : caption_requests[k] # "V2"
    /\ \A k \in 1..Len(whisper_attempts) : whisper_attempts[k] # "V2"

\* C10 as stated: after an extraction pass with speech recognition enabled,
\* when fallback_only is true speech recognition was attempted only for
\* videos whose platform captions were not retrieved, and when fallback_only
\* is false it was attempted for every video the pass extracted, those whose
\* platform captions were retrieved included.
C10_AsStated ==
    (pc = "extracted" /\ config.use_whisper) =>
        IF config.fallback_only
        THEN \A k \in 1..Len(whisper_attempts) :
                \E i \in 1..Len(transcripts) :
                   /\ transcripts[i].video_id = whisper_attempts[k]
                   /\ transcripts[i].method # "youtube_api"
        ELSE \A k \in 1..Len(caption_requests) :
                \E j \in 1..Len(whisper_attempts) :
                   whisper_attempts[j] = caption_requests[k]

-----------------------------------------------------------------------------
(* Properties of the extractor *)

\* C11 as stated: whenever _extract_with_whisper obtained an audio file
\* (downloaded, or found on disk), deletion of the file is attempted before it
\* returns, whether recognition succeeded or raised; and a deletion that
\* fails leaves the returned record the success record.
C11_AsStated ==
    (call.called /\ call.whisper_entered /\ call.audio.obtained) =>
        /\ call.audio.remove_attempted
        /\ (call.env.whisper = "ok" /\ ~call.remove_ok) => call.record.status = "success"

\* C12: extract_transcript returns a record whose status is one of success,
\* no_transcript, disabled, error, whatever the captions API and the
\* speech-recognition path do; a success record carries the full text and a
\* segment sequence, any other record carries neither.
C12_StatusSet ==
    call.called =>
        /\ call.record.video_id = call.video_id
        /\ call.record.status \in { "success", "no_transcript", "disabled", "error" }
        /\ IF call.record.status = "success"
           THEN /\ call.record.text \in Seq(STRING)
                /\ call.record.entries \in Seq(Seq(STRING))
                /\ call.record.method \in { "youtube_api", "whisper" }
           ELSE /\ call.record.text = Absent
                /\ call.record.entries = Absent

\* a call in which the captions request raised, speech recognition was
\* entered and raised too, and an error record came back
C12_Witness ==
    /\ call.called
    /\ ~call.env.api_ok
    /\ call.whisper_entered
    /\ call.env.whisper = "transcribe_error"
    /\ call.record.status = "error"

-----------------------------------------------------------------------------
(* Properties of the collector *)

\* the number of items on the first n pages of the call's listing
RECURSIVE ItemsOnPages(_, _)
ItemsOnPages(pages, n) ==
    IF n = 0 THEN 0 ELSE Len(pages[n]) + ItemsOnPages(pages, n - 1)

\* C13 as stated: get_liked_videos returns at most max_results records, and
\* it requests a further page only while the listing is not exhausted and
\* fewer than max_results records have been gathered.
C13_AsStated ==
    call.called =>
        /\ Len(call.liked_videos) <= call.max_results
        /\ call.requests <= Len(call.pages)
        /\ \A n \in 1..(call.requests - 1) : ItemsOnPages(call.pages, n) < call.max_results

\* the cached token cannot be used or renewed: there is none, it is invalid
\* and cannot be refreshed, or its refresh fails
Irrecoverable ==
    \/ call.token_before.state = "absent"
    \/ /\ call.token_before.state = "creds"
       /\ ~call.token_before.valid
       /\ ~call.token_before.refresh_token
    \/ /\ call.token_before.state = "creds"
       /\ call.token_before.expired
       /\ call.token_before.refresh_token
       /\ ~call.refresh_ok

\* C14 as stated: a valid cached token is reused with no refresh and no
\* prompt; an expired one with a refresh token is refreshed without a prompt;
\* whenever the cached token is irrecoverable the interactive login flow is
\* run; and on return a session is established and the token cache holds the
\* credentials of that session.
C14_AsStated ==
    call.called =>
        /\ (call.token_before.state = "creds" /\ call.token_before.valid) =>
              /\ ~call.result.refresh_attempted
              /\ ~call.result.prompted
              /\ call.result.credentials = call.token_before
        /\ (/\ call.token_before.state = "creds"
            /\ call.token_before.expired
            /\ call.token_before.refresh_token
            /\ call.refresh_ok) =>
              /\ call.result.refresh_attempted
              /\ ~call.result.prompted
        /\ Irrecoverable => call.result.prompted
        /\ ~call.result.raised =>
              /\ call.result.credentials.valid
              /\ call.result.token = call.result.credentials

-----------------------------------------------------------------------------
(* Properties of the summarizer *)

\* C15: for a success transcript each summarizer function issues exactly one
\* generation request; when that request fails the function returns a record
\* of status error that carries the error message and no summary, whatever a
\* second request would have received
C15_SummarizerFailure ==
    (call.called /\ call.transcript.status = "success") =>
        /\ call.requests = 1
        /\ call.answers[1] = "fail" =>
              /\ call.record.status = "error"
              /\ call.record.error = call.answers[1]
              /\ call.record.summary = Absent
              /\ call.record.video_id = call.transcript.video_id
        /\ call.answers[1] # "fail" =>
              /\ call.record.status = "success"
              /\ call.record.summary = call.answers[1]

C15_Witness ==
    /\ call.called
    /\ call.transcript.status = "success"
    /\ ~call.english
    /\ call.answers = << "fail", "summary A" >>
    /\ call.requests = 1
    /\ call.record.status = "error"
    /\ call.record.error = "fail"

-----------------------------------------------------------------------------
(* Properties of the stages' loops *)

\* the identifiers of a list of records, in list order
IdsOf(records) == [i \in 1..Len(records) |-> records[i].video_id]

\* the records of a list whose status is success, in list order
SuccessOf(records) == SelectSeq(records, LAMBDA r : r.status = "success")

\* C16: once extraction has run, this run's transcripts are one record per
\* collected video in collection order, whatever their statuses; once
\* summarisation has run, this run's summaries are one record per success
\* transcript in that order, whatever their statuses
C16_StagesFinish ==
    /\ pc \in { "extracted", "summarized", "categorized", "done" }
          => IdsOf(transcripts) = IdsOf(videos)
    /\ pc \in { "summarized", "categorized", "done" }
          => IdsOf(summaries) = IdsOf(SuccessOf(transcripts))

\* the first video's extraction failed, the second video's transcript was
\* extracted all the same, and its summary was asked for
C16_Witness ==
    /\ pc = "summarized"
    /\ Len(videos) = 2
    /\ transcripts[1].status \in { "no_transcript", "error" }
    /\ transcripts[2].status = "success"
    /\ caption_requests = IdsOf(videos)
    /\ generation_requests = << videos[2].video_id >>
    /\ IdsOf(summaries) = << videos[2].video_id >>

-----------------------------------------------------------------------------
(* Properties of the stores *)

FailureStatuses == { "no_transcript", "disabled", "error" }

\* the statuses of the transcript files persisted for an identifier
PersistedTranscriptStatuses(id) ==
    { transcript_files[id][m].status : m \in { "youtube_api", "whisper" } } \ { Absent }

\* C17 as stated: once the extraction stage has finished, every transcript of
\* the run that has a failure status has a persisted transcript record with
\* that status, and once the summarisation stage has finished, every summary
\* of the run that has status error has a persisted summary record with
\* status error
C17_AsStated ==
    /\ pc \in { "extracted", "summarized", "categorized" } =>
          \A i \in 1..Len(transcripts) :
              transcripts[i].status \in FailureStatuses =>
                  transcripts[i].status \in PersistedTranscriptStatuses(transcripts[i].video_id)
    /\ pc \in { "summarized", "categorized" } =>
          \A i \in 1..Len(summaries) :
              summaries[i].status = "error" =>
                  summary_files[summaries[i].video_id].status = "error"

\* C17: the stores hold success records only; a failure status is carried by
\* the record the stage returns and by no persisted record
C17_StoresHoldSuccessOnly ==
    /\ \A id \in VideoIds : PersistedTranscriptStatuses(id) \subseteq { "success" }
    /\ \A id \in VideoIds : summary_files[id].status \in { Absent, "success" }

\* extraction of the first video failed and left no transcript file, and
\* summarisation of the second video failed and left no summary file
C17_Witness ==
    /\ pc = "summarized"
    /\ Len(transcripts) = 2
    /\ transcripts[1].status = "no_transcript"
    /\ PersistedTranscriptStatuses(transcripts[1].video_id) = {}
    /\ Len(summaries) = 1
    /\ summaries[1].status = "error"
    /\ summary_files[summaries[1].video_id].status = Absent

-----------------------------------------------------------------------------
(* Properties of the reports *)

\* title, link and text of the summaries of the call that have status success
SuccessContents ==
    { [title |-> call.summaries[i].video_title, url |-> call.summaries[i].video_url,
       summary |-> call.summaries[i].summary] :
        i \in { k \in 1..Len(call.summaries) : call.summaries[k].status = "success" } }

SuccessLinks == { [title |-> e.title, url |-> e.url] : e \in SuccessContents }

\* what an entry of a report shows of its summary
ContentOf(entry) == [title |-> entry.title, url |-> entry.url, summary |-> entry.summary]

\* C18: every entry of the Markdown category sections and language-learning
\* section, every row of every Excel sheet, every HTML video card and every
\* line of the review schedule shows a summary whose status is success
C18_ReportsOmitFailures ==
    call.called =>
        /\ \A i \in 1..Len(call.markdown.sections) :
              \A k \in 1..Len(call.markdown.sections[i].entries) :
                  call.markdown.sections[i].entries[k].status = "success"
        /\ \A k \in 1..Len(call.markdown.english) :
              call.markdown.english[k].status = "success"
        /\ call.excel.written =>
              \A i \in 1..Len(call.excel.sheets) :
                  \A k \in 1..Len(call.excel.sheets[i].rows) :
                      ContentOf(call.excel.sheets[i].rows[k]) \in SuccessContents
        /\ \A i \in 1..Len(call.html.sections) :
              \A k \in 1..Len(call.html.sections[i].cards) :
                  ContentOf(call.html.sections[i].cards[k]) \in SuccessContents
        /\ \A date \in DOMAIN call.schedule :
              \A k \in 1..Len(call.schedule[date]) :
                  [title |-> call.schedule[date][k].title,
                   url |-> call.schedule[date][k].url] \in SuccessLinks

\* an error summary and a language-learning success summary, both videos
\* categorized: each report has entries and none of them is the error's
C18_Witness ==
    /\ call.called
    /\ Len(call.summaries) = 2
    /\ call.summaries[1].status = "error"
    /\ call.summaries[2].status = "success"
    /\ call.summaries[2].type = "english_learning"
    /\ \E c \in DOMAIN call.categorized :
          \E i \in 1..Len(call.categorized[c]) :
              call.categorized[c][i].video_id = call.summaries[1].video_id
    /\ Len(call.markdown.sections) > 0
    /\ Len(call.markdown.english) = 1
    /\ call.excel.written
    /\ Len(call.excel.sheets[1].rows) = 1
    /\ Len(call.html.sections) = 1
    /\ DOMAIN call.schedule # {}

-----------------------------------------------------------------------------
(* Properties of _collect_videos *)

\* C19 as stated: with force_refresh off and a non-empty persisted snapshot,
\* _collect_videos returns the snapshot without authenticating or listing and
\* leaves the snapshot file as it was; with force_refresh on it authenticates,
\* lists and overwrites the snapshot with the listing
C19_AsStated ==
    call.called =>
        /\ (~call.force_refresh /\ load_from_json(call.snapshot_before) # << >>) =>
              /\ call.videos = call.snapshot_before.videos
              /\ ~call.authenticated
              /\ ~call.listed
              /\ likes_raw = call.snapshot_before
        /\ call.force_refresh =>
              /\ call.authenticated
              /\ call.listed
              /\ likes_raw.written
              /\ likes_raw.videos = call.videos
              /\ IdsOf(call.videos) = call.listing

-----------------------------------------------------------------------------
(* Properties of accumulation *)

\* the identifiers the persisted collection snapshot has an entry for
SnapshotIds ==
    IF likes_raw.written
    THEN { likes_raw.videos[i].video_id : i \in 1..Len(likes_raw.videos) }
    ELSE {}

\* the identifier and method pairs a transcript file is persisted for
TranscriptKeys ==
    { << id, m >> \in VideoIds \X { "youtube_api", "whisper" } :
        transcript_files[id][m].status # Absent }

\* the identifiers a summary file is persisted for
SummaryKeys == { id \in VideoIds : summary_files[id].status # Absent }

\* C20 as stated: no step of any run takes an identifier out of the persisted
\* snapshot entries, of the persisted transcripts or of the persisted summaries
C20_AsStated ==
    [][ /\ SnapshotIds \subseteq SnapshotIds'
        /\ TranscriptKeys \subseteq TranscriptKeys'
        /\ SummaryKeys \subseteq SummaryKeys' ]_vars

\* C20: no step of any run takes away a persisted transcript or a persisted
\* summary, whatever is collected; the snapshot is not part of this: a run
\* that fetches the listing replaces it
C20_StoresGrow ==
    [][ /\ TranscriptKeys \subseteq TranscriptKeys'
        /\ SummaryKeys \subseteq SummaryKeys' ]_vars

\* a second run collected only V2 and extracted and summarised it, and the
\* transcript and the summary the first run persisted for V1 are still there
C20_Witness ==
    /\ runs = 2
    /\ pc = "done"
    /\ IdsOf(videos) = << "V2" >>
    /\ SnapshotIds = { "V2" }
    /\ \E m \in { "youtube_api", "whisper" } : << "V1", m >> \in TranscriptKeys
    /\ SummaryKeys = { "V1", "V2" }

-----------------------------------------------------------------------------
(* Properties of the references between records *)

\* the identifiers of the videos this run collected
CollectedIds == { videos[i].video_id : i \in 1..Len(videos) }

\* C21: every persisted summary has an identifier a transcript is persisted
\* for, and a step that persists a summary for an identifier that had none
\* is a step of a run that collected a video with that identifier
C21_SummaryReferences ==
    /\ [](\A id \in SummaryKeys : \E m \in { "youtube_api", "whisper" } :
              << id, m >> \in TranscriptKeys)
    /\ [][\A id \in SummaryKeys' \ SummaryKeys : id \in CollectedIds]_vars

\* a run persisted a summary it generated from a transcript produced by
\* speech recognition
C21_Witness ==
    /\ pc = "summarized"
    /\ generation_requests = << "V1" >>
    /\ SummaryKeys = { "V1" }
    /\ TranscriptKeys = { << "V1", "whisper" >> }
    /\ "V1" \in CollectedIds

-----------------------------------------------------------------------------
(* Properties of categorize_batch *)

\* the transcript categorize_batch pairs with a video: the last one of the
\* list that has the video's identifier, none when there is none
BatchTranscriptOf(video) ==
    LET same == SelectSeq(call.transcripts, LAMBDA t : t.video_id = video.video_id)
    IN  IF same = << >> THEN NoRecord ELSE same[Len(same)]

\* the video as the mapping holds it: tagged with the label categorize_video
\* returns for it
BatchTagged(video) ==
    [video_id |-> video.video_id, title |-> video.title,
     description |-> video.description, url |-> video.url,
     category |-> categorize_video(config.categories, video, BatchTranscriptOf(video))]

\* the sum of the lengths of the lists of a mapping
RECURSIVE GroupSizes(_, _)
GroupSizes(grouping, labels) ==
    IF labels = {} THEN 0
    ELSE LET c == CHOOSE l \in labels : TRUE
         IN  Len(grouping[c]) + GroupSizes(grouping, labels \ { c })

\* C22: the mapping categorize_batch returns holds, under each label and in
\* input order, exactly the input videos categorize_video gives that label,
\* each tagged with the label; so every input video stands once, under its
\* label, the group sizes sum to the number of input videos, and no group is
\* empty
C22_BatchGrouping ==
    call.called =>
        LET grouping == call.categorized
            tagged == [i \in 1..Len(call.videos) |-> BatchTagged(call.videos[i])]
        IN  /\ \A c \in DOMAIN grouping :
                  /\ grouping[c] # << >>
                  /\ grouping[c] = SelectSeq(tagged, LAMBDA v : v.category = c)
            /\ \A i \in 1..Len(tagged) : tagged[i].category \in DOMAIN grouping
            /\ GroupSizes(grouping, DOMAIN grouping) = Len(call.videos)

\* two videos with neutral titles; the transcript of the first names the
\* category life, the second has none and falls under the default label
C22_Witness ==
    /\ call.called
    /\ Len(call.videos) = 2
    /\ call.videos[1] = VideoRecord("V1", << "x" >>, << >>)
    /\ call.videos[2] = VideoRecord("V2", << "x" >>, << >>)
    /\ DOMAIN call.categorized = { "life", DefaultCategory }
    /\ Len(call.categorized["life"]) = 1
    /\ call.categorized["life"][1].video_id = "V1"
    /\ call.categorized[DefaultCategory][1].category = DefaultCategory

-----------------------------------------------------------------------------
(* Properties of the workbook *)

\* the summaries of the call that have status success
CallSuccessSummaries == SelectSeq(call.summaries, LAMBDA s : s.status = "success")

\* the labels of the grouping whose list holds the video of the summary
LabelsHolding(summary) ==
    { c \in DOMAIN call.categorized :
        \E i \in 1..Len(call.categorized[c]) :
            call.categorized[c][i].video_id = summary.video_id }

\* the labels the rows of the workbook carry: for each success summary the
\* label holding its video, the default label when none does
RowLabels ==
    UNION { IF LabelsHolding(CallSuccessSummaries[i]) = {} THEN { DefaultCategory }
            ELSE LabelsHolding(CallSuccessSummaries[i]) :
            i \in 1..Len(CallSuccessSummaries) }

\* the positions of the sheets of the workbook that have the name
SheetsNamed(name) ==
    { i \in 1..Len(call.excel.sheets) : call.excel.sheets[i].name = name }

SomeEnglishSummary ==
    \E i \in 1..Len(call.summaries) : call.summaries[i].type = "english_learning"

\* C23 as stated: a written workbook has the all-records sheet, one sheet of
\* its own for every category of the grouping, and the language-learning
\* sheet when some summary is a language-learning one
C23_AsStated ==
    (call.called /\ call.excel.written) =>
        /\ Cardinality(SheetsNamed(AllSheet)) = 1
        /\ \A c \in DOMAIN call.categorized : Cardinality(SheetsNamed(c)) = 1
        /\ SomeEnglishSummary => Cardinality(SheetsNamed(EnglishSheet)) = 1

\* C23: a written workbook has the all-records sheet first, then one sheet
\* of its own for every label a row carries and for no other label, and the
\* language-learning sheet exactly when some success summary is a
\* language-learning one; a category of the grouping none of whose videos has
\* a success summary gets no sheet
C23_WorkbookSheets ==
    (call.called /\ call.excel.written) =>
        /\ SheetsNamed(AllSheet) = { 1 }
        /\ Len(call.excel.sheets[1].rows) = Len(CallSuccessSummaries)
        /\ \A c \in RowLabels : Cardinality(SheetsNamed(c)) = 1
        /\ \A i \in 2..Len(call.excel.sheets) :
              call.excel.sheets[i].name \in RowLabels \cup { EnglishSheet }
        /\ Cardinality(SheetsNamed(EnglishSheet)) =
              IF \E i \in 1..Len(CallSuccessSummaries) :
                     CallSuccessSummaries[i].type = "english_learning"
              THEN 1 ELSE 0

\* V1 is under tech and its summary failed, V2 is under life and has a
\* language-learning summary: the workbook has no sheet tech
C23_Witness ==
    /\ call.called
    /\ call.excel.written
    /\ DOMAIN call.categorized = { "tech", "life" }
    /\ Len(call.summaries) = 2
    /\ call.summaries[1].status = "error"
    /\ call.summaries[1].video_id = "V1"
    /\ call.categorized["tech"][1].video_id = "V1"
    /\ [i \in 1..Len(call.excel.sheets) |-> call.excel.sheets[i].name]
          = << AllSheet, "life", EnglishSheet >>

-----------------------------------------------------------------------------
(* Properties of the template selection *)

\* the language-learning predicate as the claim words it: an English language
\* tag, or a language-learning keyword in the title, whatever its case
ClaimEnglishContent(transcript) ==
    \/ transcript.language \in { "en", "en-US", "en-GB" }
    \/ \E i \in 1..Len(EnglishKeywords) :
          Contains(EnglishKeywords[i], Lower(transcript.video_title))

\* C24: for a success transcript without a persisted summary the predicate
\* is evaluated once, and a summary returned with status success has type
\* english_learning when the predicate holds and type general when it does
\* not; with a persisted summary the predicate is not evaluated and the
\* persisted record is returned, its type as stored
C24_TemplateSelection ==
    call.called =>
        LET stored == summary_files[call.transcript.video_id]
        IN  /\ stored.status = Absent =>
                  /\ call.checks = 1
                  /\ call.record.status = "success" =>
                        call.record.type = IF ClaimEnglishContent(call.transcript)
                                           THEN "english_learning" ELSE "general"
            /\ stored.status # Absent =>
                  /\ call.checks = 0
                  /\ call.record = stored

\* a Korean-language transcript whose title has the keyword in capitals is
\* summarised afresh with the language-learning template
C24_Witness ==
    /\ call.called
    /\ summary_files["V1"].status = Absent
    /\ call.transcript.language = "ko"
    /\ call.transcript.video_title = << "T","O","E","I","C"," ","9","0","0" >>
    /\ call.checks = 1
    /\ call.record.status = "success"
    /\ call.record.type = "english_learning"

-----------------------------------------------------------------------------
(* Properties of the order of the stages *)

\* the steps of run_full_pipeline in order, and the start of the next run
StageSteps ==
    { << "idle", "collected" >>, << "idle", "done" >>,
      << "collected", "extracted" >>, << "extracted", "summarized" >>,
      << "summarized", "categorized" >>, << "categorized", "done" >>,
      << "done", "idle" >> }

\* C25: the position of a run moves through collection, extraction,
\* summarisation, categorisation and reporting in that order and never back;
\* each stage's outputs change only in the step of that stage, one step per
\* stage and run; a collection that yields no video ends the run, and that
\* step leaves the stores, the reports and the later stages' results alone
C25_StageOrder ==
    [][ /\ pc' # pc => << pc, pc' >> \in StageSteps
        /\ pc = "idle" =>
              /\ pc' \in { "collected", "done" }
              /\ runs' = runs + 1
              /\ pc' = "done" <=> videos' = << >>
              /\ UNCHANGED << transcript_files, summary_files, markdown_file,
                              excel_file, html_file, schedule_file, transcripts,
                              summaries, categorized, caption_requests,
                              whisper_attempts, generation_requests >>
        /\ pc # "idle" => UNCHANGED << likes_raw, runs >>
        /\ pc \notin { "idle", "done" } => UNCHANGED videos
        /\ pc \notin { "collected", "done" } =>
              UNCHANGED << transcripts, caption_requests, whisper_attempts >>
        /\ pc # "collected" => UNCHANGED transcript_files
        /\ pc \notin { "extracted", "done" } => UNCHANGED << summaries, generation_requests >>
        /\ pc # "extracted" => UNCHANGED summary_files
        /\ pc \notin { "summarized", "done" } => UNCHANGED categorized
        /\ pc # "categorized" =>
              UNCHANGED << markdown_file, excel_file, html_file, schedule_file >>
      ]_vars

\* a second run whose collection yielded no video has ended, and the stores
\* and reports of the first run are as that run left them
C25_Witness ==
    /\ runs = 2
    /\ pc = "done"
    /\ videos = << >>
    /\ transcripts = << >>
    /\ caption_requests = << >>
    /\ generation_requests = << >>
    /\ SummaryKeys # {}
    /\ markdown_file.written

-----------------------------------------------------------------------------
(* Properties of the retries across runs *)

\* the identifiers none of whose records in the list has status success
IdsWithoutSuccess(records) ==
    { records[i].video_id : i \in 1..Len(records) }
       \ { records[i].video_id : i \in { k \in 1..Len(records) : records[k].status = "success" } }

\* the identifiers in a list of identifiers
IdsIn(ids) == { ids[i] : i \in 1..Len(ids) }

\* C26: a step writes success records only to the transcript store and to
\* the summary store; an identifier whose extraction, or summarisation, gave
\* no success record in a run has no persisted record when the stage has
\* finished; the stores change in no other stage; and an extraction pass asks
\* the captions API for every collected video without a persisted transcript,
\* a summarisation pass issues a generation request for every success
\* transcript without a persisted summary.  So what failed in one run is
\* asked for again in the next run that collects it.
C26_NoNegativeCaching ==
    /\ [](/\ pc \in { "extracted", "summarized", "categorized" } =>
               \A id \in IdsWithoutSuccess(transcripts) :
                   \A m \in { "youtube_api", "whisper" } : << id, m >> \notin TranscriptKeys
          /\ pc \in { "summarized", "categorized" } =>
               IdsWithoutSuccess(summaries) \cap SummaryKeys = {})
    /\ [][ /\ \A id \in VideoIds :
                /\ \A m \in { "youtube_api", "whisper" } :
                      transcript_files'[id][m] # transcript_files[id][m] =>
                          transcript_files'[id][m].status = "success"
                /\ summary_files'[id] # summary_files[id] =>
                      summary_files'[id].status = "success"
           /\ pc # "collected" => UNCHANGED transcript_files
           /\ pc # "extracted" => UNCHANGED summary_files
           /\ (pc = "collected" /\ pc' = "extracted") =>
                 \A i \in 1..Len(videos) :
                     (\A m \in { "youtube_api", "whisper" } :
                          << videos[i].video_id, m >> \notin TranscriptKeys)
                        => videos[i].video_id \in IdsIn(caption_requests')
           /\ (pc = "extracted" /\ pc' = "summarized") =>
                 \A i \in 1..Len(transcripts) :
                     (transcripts[i].status = "success"
                        /\ transcripts[i].video_id \notin SummaryKeys)
                        => transcripts[i].video_id \in IdsIn(generation_requests')
         ]_vars

\* the first run collected V1 alone and got no transcript for it (its report
\* counts one video under tech and no summary); the second run collects V1
\* again, asks the captions API for it again and, by speech recognition,
\* gets a transcript
C26_Witness ==
    /\ runs = 2
    /\ pc = "extracted"
    /\ markdown_file.written
    /\ markdown_file.total = 0
    /\ markdown_file.distribution = << [category |-> "tech", count |-> 1] >>
    /\ IdsOf(videos) = << "V1" >>
    /\ caption_requests = << "V1" >>
    /\ transcripts[1].status = "success"
    /\ transcripts[1].method = "whisper"

-----------------------------------------------------------------------------
(* Properties of the collection under CI *)

\* what data/likes_raw.json held before the call, as a list
SnapshotBefore ==
    IF call.snapshot_before.written THEN call.snapshot_before.videos ELSE << >>

\* C27: with force_refresh off and CI set, _collect_videos does not
\* authenticate and does not call the listing API, it returns what the
\* snapshot holds and leaves the file as it was; with no snapshot or an empty
\* one it returns the empty list and the run ends after collection
C27_CollectionUnderCI ==
    (call.called /\ ~call.force_refresh /\ call.ci) =>
        /\ ~call.authenticated
        /\ ~call.listed
        /\ call.videos = SnapshotBefore
        /\ likes_raw = call.snapshot_before
        /\ SnapshotBefore = << >> => (call.videos = << >> /\ call.after = "done")
        /\ SnapshotBefore # << >> => call.after = "collected"

\* no snapshot is persisted and the platform has liked videos to list: the
\* call returns nothing, asks nothing and the run ends
C27_Witness ==
    /\ call.called
    /\ ~call.force_refresh
    /\ call.ci
    /\ ~call.snapshot_before.written
    /\ call.listing # << >>
    /\ call.videos = << >>
    /\ ~call.authenticated
    /\ ~call.listed
    /\ ~likes_raw.written
    /\ call.after = "done"

-----------------------------------------------------------------------------
(* Properties of the speech-recognition count in the reports *)

\* the success summaries of this run whose transcript came from speech
\* recognition: a successful transcript of the same video with method whisper
WhisperSummaries ==
    SelectSeq(summaries, LAMBDA s :
        /\ s.status = "success"
        /\ \E i \in 1..Len(transcripts) :
              /\ transcripts[i].video_id = s.video_id
              /\ transcripts[i].status = "success"
              /\ transcripts[i].method = "whisper")

\* the cards of the HTML report, over all its sections
ReportCards ==
    UNION { { html_file.sections[i].cards[k] :
                k \in 1..Len(html_file.sections[i].cards) } :
            i \in 1..Len(html_file.sections) }

\* C28: when a run that collected videos has finished, the Whisper count of the HTML report and of
\* the run summary equals the number of success summaries whose transcript
\* was produced by speech recognition (method whisper), and exactly the cards
\* of those summaries carry the Whisper badge
C28_AsStated ==
    (pc = "done" /\ videos # << >>) =>
        /\ html_file.whisper = Len(WhisperSummaries)
        /\ print_summary(summaries, categorized).whisper = Len(WhisperSummaries)
        /\ { c.url : c \in { d \in ReportCards : d.whisper_badge } }
               = { WhisperSummaries[i].video_url : i \in 1..Len(WhisperSummaries) }

====
